---- MODULE Spec2Model ----
(***************************************************************************)
(* react-three-chess: the rule engine (chess.js), the move validator used  *)
(* by the server (isValidMove, POST /games/:id) and the client's move      *)
(* handler (Game.onUpdate).                                                *)
(*                                                                         *)
(* Representation.  A piece is a record [id, type, moveCount, color,       *)
(* coord]; coord is a tuple, coord[1] the file (JS coord[0]) and coord[2]  *)
(* the rank (JS coord[1]).  A game is [pieces, moveCount, prevState, id];  *)
(* pieces is a sequence in the order of the JS array (JSON.stringify       *)
(* compares it in order), prevState is <<>> when the JS key is absent and  *)
(* <<s>> when it holds the state s, id is the key the server stores the    *)
(* game under.  A JS value that may be undefined (find, filter(...)[0])    *)
(* is a sequence of length 0 or 1.                                         *)
(*                                                                         *)
(* Spec is the play of one game through the client (turns enforced by the  *)
(* UI); SpecEngine is the engine called directly, for pieces of either     *)
(* color in any order; SpecServer is the server handling the requests of   *)
(* arbitrary clients.                                                      *)
(***************************************************************************)
EXTENDS Integers, Sequences, FiniteSets, TLC

VARIABLES
  game,    \* the state a client's Game component holds (useGame)
  book,    \* the repertoire the two players of that game choose from
  stored,  \* the server's record games:<id> (redis)
  calls,   \* the number of updatePiece calls that made game from makeGame()
  heap,    \* the objects allocated so far, by reference
  held,    \* the states given to callers: reference, and what was seen then
  requests,\* the POST /games/:id requests the server is handling
  everMoved, \* the ids of the pieces updatePiece has displaced in making game
  ui,      \* a browser tab: the game of useGame, activePiece, the last onUpdate
  net      \* the requests and responses of that tab in flight

vars == <<game, book, stored, calls, heap, held, requests, everMoved, ui, net>>

\* ------------------------------------------------------------------ bounds
\* Half-moves played in one game of the model.
MaxPlies == 6

\* Calls of updatePiece in one run of the engine called directly.
MaxCalls == 3

\* The largest moveCount parameter updatePiece is called with.
MaxIncrement == 2

\* Requests the server handles in one run of the server model.
MaxPosts == 2
\* requests the server handles at the same time
MaxClients == 2
\* half-moves and promotions played after an opening
MaxLate == 4
\* A request that has not arrived.
idle == [pc |-> "idle", body |-> <<>>, result |-> <<>>, before |-> <<>>]
\* objects allocated in one run of the heap specification
MaxObjects == 9
\* arrays left behind by queries in one run of the heap specification
MaxQueries == 1
\* The longest chain of nested activations that is followed.
MaxStack == 8
\* The requests one tab sends, and those of them in flight at once.
MaxSent == 3
MaxInFlight == 2
\* A tab before its first render: no game, no piece selected, no move made.
noUi == [game |-> <<>>, activePiece |-> <<>>, issued |-> <<>>]

\* --------------------------------------------------------------- constants
\* The board is Size x Size (the literal 8 of makeAttack and createPieces).
Size == 8

\* makeAngleAttack's default max = Infinity: a ray leaves the board after at
\* most Size steps, so any value >= Size gives the same loop.
Infinity == 8

\* JS undefined where a number is expected (coord[1] of a 1-element coord).
\* Arithmetic on it gives NaN; every comparison the code makes with either
\* is false, which holds of this value because no square is near it.
undefined == -99

\* -------------------------------------------------------------- chess.js
PIECE_NAMES == {"bishop", "king", "knight", "pawn", "queen", "rook"}

\* shortToType with the king and the queen exchanged.
shortToType_QueenFirst(t) ==
  CASE t = "R" -> <<"rook">>
    [] t = "N" -> <<"knight">>
    [] t = "P" -> <<"pawn">>
    [] t = "K" -> <<"queen">>
    [] t = "B" -> <<"bishop">>
    [] t = "Q" -> <<"king">>
    [] OTHER -> <<>>

shortToType(t) ==
  CASE t = "R" -> <<"rook">>
    [] t = "N" -> <<"knight">>
    [] t = "P" -> <<"pawn">>
    [] t = "K" -> <<"king">>
    [] t = "B" -> <<"bishop">>
    [] t = "Q" -> <<"queen">>
    [] OTHER -> <<>>

board ==
  << "R", "N", "B", "K", "Q", "B", "N", "R",
     "P", "P", "P", "P", "P", "P", "P", "P",
     " ", " ", " ", " ", " ", " ", " ", " ",
     " ", " ", " ", " ", " ", " ", " ", " ",
     " ", " ", " ", " ", " ", " ", " ", " ",
     " ", " ", " ", " ", " ", " ", " ", " ",
     "P", "P", "P", "P", "P", "P", "P", "P",
     "R", "N", "B", "K", "Q", "B", "N", "R" >>

RECURSIVE createFrom(_)
\* board.map(...).filter(x => x.type), from index i (0-based) on.
createFrom(i) ==
  IF i >= Len(board) THEN <<>>
  ELSE LET t == shortToType(board[i + 1])
       IN  (IF t = <<>> THEN <<>>
            ELSE << [ id |-> i,
                      type |-> t[1],
                      moveCount |-> 0,
                      color |-> IF i \div 8 > 4 THEN "black" ELSE "white",
                      coord |-> <<i % 8, i \div 8>> ] >>)
           \o createFrom(i + 1)

createPieces == createFrom(0)

makeGame == [ pieces |-> createPieces, moveCount |-> 0, prevState |-> <<>> ]

\* server.js, POST /games: const game = { ...makeGame(), id }.  Every state
\* a client or the server holds descends from one of these and carries its id.
newGame(id) ==
  [ pieces |-> makeGame.pieces, moveCount |-> makeGame.moveCount,
    prevState |-> makeGame.prevState, id |-> id ]

\* coord[0] and coord[1] of the JS array.
cx(c) == IF Len(c) >= 1 THEN c[1] ELSE undefined
cy(c) == IF Len(c) >= 2 THEN c[2] ELSE undefined

sign(n) == IF n > 0 THEN 1 ELSE IF n < 0 THEN -1 ELSE 0
abs(n) == IF n < 0 THEN -n ELSE n
min(a, b) == IF a < b THEN a ELSE b
max(a, b) == IF a > b THEN a ELSE b

\* array.find(p) and array.filter(p)[0], given f = array.filter(p): <<>> or
\* <<the first element satisfying p>>.
find(f) == IF f = <<>> THEN <<>> ELSE <<f[1]>>

getDirection(g, piece) == IF piece.color = "white" THEN 1 ELSE -1

\* g is a state the program holds (makeGame's, or one updatePiece built from
\* it): its coords have both elements.
getPieceAtPosition(g, x, y) ==
  find(SelectSeq(g.pieces, LAMBDA p : p.coord[1] = x /\ p.coord[2] = y))

\* getEnPassantPiece looking for the passed pawn on the wrong side of the
\* square (spot1 and spot2 exchanged).
getEnPassantPiece_SpotsSwapped(g, piece, x, y) ==
  IF piece.type = "pawn" /\ g.prevState # <<>>
  THEN LET direction == getDirection(g, piece)
           cur == getPieceAtPosition(g, x, y + direction)
           prev == getPieceAtPosition(g.prevState[1], x, y - direction)
       IN  IF /\ cur # <<>>
              /\ prev # <<>>
              /\ cur[1].id = prev[1].id
              /\ prev[1].type = "pawn"
              /\ prev[1].color # piece.color
           THEN cur
           ELSE <<>>
  ELSE <<>>

\* getEnPassantPiece looking at the passed pawn only (it has moved once),
\* and not at where it stood one half-move ago.
getEnPassantPiece_NoExpiry(g, piece, x, y) ==
  IF piece.type = "pawn" /\ g.prevState # <<>>
  THEN LET direction == getDirection(g, piece)
           cur == getPieceAtPosition(g, x, y - direction)
       IN  IF /\ cur # <<>>
              /\ cur[1].type = "pawn"
              /\ cur[1].moveCount = 1
              /\ cur[1].color # piece.color
           THEN cur
           ELSE <<>>
  ELSE <<>>

getEnPassantPiece(g, piece, x, y) ==
  IF piece.type = "pawn" /\ g.prevState # <<>>
  THEN LET direction == getDirection(g, piece)
           cur == getPieceAtPosition(g, x, y - direction)
           prev == getPieceAtPosition(g.prevState[1], x, y + direction)
       IN  IF /\ cur # <<>>
              /\ prev # <<>>
              /\ cur[1].id = prev[1].id
              /\ prev[1].type = "pawn"
              /\ prev[1].color # piece.color
           THEN cur
           ELSE <<>>
  ELSE <<>>

\* const oldPiece = game.pieces.find(x => x.id === piece.id)
oldPieceOf(g, piece) == find(SelectSeq(g.pieces, LAMBDA x : x.id = piece.id))

didCastleOf(g, piece) ==
  /\ piece.type = "king"
  /\ abs(cx(piece.coord) - cx(oldPieceOf(g, piece)[1].coord)) = 2

\* The rook the castling branch looks for.
castleRook(g, piece) ==
  LET oldPiece == oldPieceOf(g, piece)[1]
      oldDir == sign(cx(piece.coord) - cx(oldPiece.coord))
  IN  find(SelectSeq(g.pieces, LAMBDA x :
        /\ x.type = "rook"
        /\ x.color = piece.color
        /\ cy(x.coord) = cy(piece.coord)
        /\ x.moveCount = 0
        /\ sign(cx(x.coord) - cx(oldPiece.coord)) = oldDir))

\* piece.type === 'king' && Math.abs(piece.coord[0] - oldPiece.coord[0]):
\* reading oldPiece.coord raises a TypeError when oldPiece is undefined; the
\* && is not evaluated further for another type.
didCastleThrows(g, piece) ==
  piece.type = "king" /\ oldPieceOf(g, piece) = <<>>

\* getEnPassantPiece testing "piece && piece.type === 'pawn'".
getEnPassantPieceThrows_Guarded(piece) == FALSE

\* getEnPassantPiece reads piece.type first: a TypeError when the piece it
\* is given is undefined.
getEnPassantPieceThrows(piece) == piece = <<>>

\* The pieces a call of updatePiece gives a new square: the piece passed
\* and, in the castling branch, the rook.
displaced(g, piece) ==
  {piece.id} \cup
  (IF didCastleOf(g, piece) /\ castleRook(g, piece) # <<>>
   THEN {castleRook(g, piece)[1].id} ELSE {})

\* updatePiece raises a TypeError: oldPiece is undefined (oldPiece.coord or,
\* in getEnPassantPiece, piece.type), or the castling branch finds no rook
\* (rook.id).
updatePieceThrows(g, piece) ==
  \/ didCastleThrows(g, piece)
  \/ getEnPassantPieceThrows(oldPieceOf(g, piece))
  \/ didCastleOf(g, piece) /\ castleRook(g, piece) = <<>>

\* updatePiece forgetting its moveCount parameter: every count goes up by one.
updatePiece_CountsOne(g, piece, moveCount) ==
  LET oldPiece == oldPieceOf(g, piece)[1]
      prevState == [g EXCEPT !.prevState = <<>>]
      enPassantPiece ==
        getEnPassantPiece(g, oldPiece, cx(piece.coord), cy(piece.coord))
      moved == [piece EXCEPT !.moveCount = piece.moveCount + 1]
  IN  IF didCastleOf(g, piece)
      THEN LET oldDir == sign(cx(piece.coord) - cx(oldPiece.coord))
               rook == castleRook(g, piece)[1]
               pieces == SelectSeq(g.pieces, LAMBDA x :
                 /\ (cx(x.coord) # cx(piece.coord) \/ cy(x.coord) # cy(piece.coord))
                 /\ x.id # piece.id
                 /\ x.id # rook.id)
           IN  [g EXCEPT
                  !.pieces =
                    Append(Append(pieces, moved),
                           [rook EXCEPT
                              !.moveCount = rook.moveCount + 1,
                              !.coord = <<cx(oldPiece.coord) + oldDir,
                                          cy(piece.coord)>>]),
                  !.moveCount = g.moveCount + 1,
                  !.prevState = <<prevState>>]
      ELSE LET pieces == SelectSeq(g.pieces, LAMBDA x :
                 IF enPassantPiece # <<>>
                 THEN x.id # piece.id /\ x.id # enPassantPiece[1].id
                 ELSE /\ (cx(x.coord) # cx(piece.coord) \/ cy(x.coord) # cy(piece.coord))
                      /\ x.id # piece.id)
           IN  [g EXCEPT
                  !.pieces = Append(pieces, moved),
                  !.moveCount = g.moveCount + 1,
                  !.prevState = <<prevState>>]

\* updatePiece with every branch removing by id only, as the en-passant branch
\* does: a piece standing on the destination stays.
updatePiece_RemovesByIdOnly(g, piece, moveCount) ==
  LET oldPiece == oldPieceOf(g, piece)[1]
      prevState == [g EXCEPT !.prevState = <<>>]
      moved == [piece EXCEPT !.moveCount = piece.moveCount + moveCount]
  IN  IF didCastleOf(g, piece)
      THEN LET oldDir == sign(cx(piece.coord) - cx(oldPiece.coord))
               rook == castleRook(g, piece)[1]
               pieces == SelectSeq(g.pieces, LAMBDA x :
                 x.id # piece.id /\ x.id # rook.id)
           IN  [g EXCEPT
                  !.pieces =
                    Append(Append(pieces, moved),
                           [rook EXCEPT
                              !.moveCount = rook.moveCount + moveCount,
                              !.coord = <<cx(oldPiece.coord) + oldDir,
                                          cy(piece.coord)>>]),
                  !.moveCount = g.moveCount + moveCount,
                  !.prevState = <<prevState>>]
      ELSE LET enPassantPiece ==
                 getEnPassantPiece(g, oldPiece, cx(piece.coord), cy(piece.coord))
               pieces == SelectSeq(g.pieces, LAMBDA x :
                 /\ x.id # piece.id
                 /\ enPassantPiece # <<>> => x.id # enPassantPiece[1].id)
           IN  [g EXCEPT
                  !.pieces = Append(pieces, moved),
                  !.moveCount = g.moveCount + moveCount,
                  !.prevState = <<prevState>>]

\* updatePiece without "delete prevState.prevState": the whole history is kept.
updatePiece_KeepsHistory(g, piece, moveCount) ==
  LET oldPiece == oldPieceOf(g, piece)[1]
      didCastle == didCastleOf(g, piece)
      prevState == g
      enPassantPiece ==
        getEnPassantPiece(g, oldPiece, cx(piece.coord), cy(piece.coord))
      moved == [piece EXCEPT !.moveCount = piece.moveCount + moveCount]
  IN  IF didCastle
      THEN LET oldDir == sign(cx(piece.coord) - cx(oldPiece.coord))
               rook == castleRook(g, piece)[1]
               pieces == SelectSeq(g.pieces, LAMBDA x :
                 /\ (cx(x.coord) # cx(piece.coord) \/ cy(x.coord) # cy(piece.coord))
                 /\ x.id # piece.id
                 /\ x.id # rook.id)
           IN  [g EXCEPT
                  !.pieces =
                    Append(Append(pieces, moved),
                           [rook EXCEPT
                              !.moveCount = rook.moveCount + moveCount,
                              !.coord = <<cx(oldPiece.coord) + oldDir,
                                          cy(piece.coord)>>]),
                  !.moveCount = g.moveCount + moveCount,
                  !.prevState = <<prevState>>]
      ELSE IF enPassantPiece # <<>>
      THEN LET pieces == SelectSeq(g.pieces, LAMBDA x :
                 x.id # piece.id /\ x.id # enPassantPiece[1].id)
           IN  [g EXCEPT
                  !.pieces = Append(pieces, moved),
                  !.moveCount = g.moveCount + moveCount,
                  !.prevState = <<prevState>>]
      ELSE LET pieces == SelectSeq(g.pieces, LAMBDA x :
                 /\ (cx(x.coord) # cx(piece.coord) \/ cy(x.coord) # cy(piece.coord))
                 /\ x.id # piece.id)
           IN  [g EXCEPT
                  !.pieces = Append(pieces, moved),
                  !.moveCount = g.moveCount + moveCount,
                  !.prevState = <<prevState>>]

\* updatePiece removing, in its last branch, every piece on the file of the
\* destination and not only the piece on the destination.
updatePiece_ClearsFile(g, piece, moveCount) ==
  LET oldPiece == oldPieceOf(g, piece)[1]
      didCastle == didCastleOf(g, piece)
      prevState == [g EXCEPT !.prevState = <<>>]
      enPassantPiece ==
        getEnPassantPiece(g, oldPiece, cx(piece.coord), cy(piece.coord))
      moved == [piece EXCEPT !.moveCount = piece.moveCount + moveCount]
  IN  IF didCastle
      THEN LET oldDir == sign(cx(piece.coord) - cx(oldPiece.coord))
               rook == castleRook(g, piece)[1]
               pieces == SelectSeq(g.pieces, LAMBDA x :
                 /\ (cx(x.coord) # cx(piece.coord) \/ cy(x.coord) # cy(piece.coord))
                 /\ x.id # piece.id
                 /\ x.id # rook.id)
           IN  [g EXCEPT
                  !.pieces =
                    Append(Append(pieces, moved),
                           [rook EXCEPT
                              !.moveCount = rook.moveCount + moveCount,
                              !.coord = <<cx(oldPiece.coord) + oldDir,
                                          cy(piece.coord)>>]),
                  !.moveCount = g.moveCount + moveCount,
                  !.prevState = <<prevState>>]
      ELSE IF enPassantPiece # <<>>
      THEN LET pieces == SelectSeq(g.pieces, LAMBDA x :
                 x.id # piece.id /\ x.id # enPassantPiece[1].id)
           IN  [g EXCEPT
                  !.pieces = Append(pieces, moved),
                  !.moveCount = g.moveCount + moveCount,
                  !.prevState = <<prevState>>]
      ELSE LET pieces == SelectSeq(g.pieces, LAMBDA x :
                 /\ cx(x.coord) # cx(piece.coord)
                 /\ x.id # piece.id)
           IN  [g EXCEPT
                  !.pieces = Append(pieces, moved),
                  !.moveCount = g.moveCount + moveCount,
                  !.prevState = <<prevState>>]

updatePiece(g, piece, moveCount) ==
  LET oldPiece == oldPieceOf(g, piece)[1]
      didCastle == didCastleOf(g, piece)
      prevState == [g EXCEPT !.prevState = <<>>]
      enPassantPiece ==
        getEnPassantPiece(g, oldPiece, cx(piece.coord), cy(piece.coord))
      moved == [piece EXCEPT !.moveCount = piece.moveCount + moveCount]
  IN  IF didCastle
      THEN LET oldDir == sign(cx(piece.coord) - cx(oldPiece.coord))
               rook == castleRook(g, piece)[1]
               pieces == SelectSeq(g.pieces, LAMBDA x :
                 /\ (cx(x.coord) # cx(piece.coord) \/ cy(x.coord) # cy(piece.coord))
                 /\ x.id # piece.id
                 /\ x.id # rook.id)
           IN  [g EXCEPT
                  !.pieces =
                    Append(Append(pieces, moved),
                           [rook EXCEPT
                              !.moveCount = rook.moveCount + moveCount,
                              !.coord = <<cx(oldPiece.coord) + oldDir,
                                          cy(piece.coord)>>]),
                  !.moveCount = g.moveCount + moveCount,
                  !.prevState = <<prevState>>]
      ELSE IF enPassantPiece # <<>>
      THEN LET pieces == SelectSeq(g.pieces, LAMBDA x :
                 x.id # piece.id /\ x.id # enPassantPiece[1].id)
           IN  [g EXCEPT
                  !.pieces = Append(pieces, moved),
                  !.moveCount = g.moveCount + moveCount,
                  !.prevState = <<prevState>>]
      ELSE LET pieces == SelectSeq(g.pieces, LAMBDA x :
                 /\ (cx(x.coord) # cx(piece.coord) \/ cy(x.coord) # cy(piece.coord))
                 /\ x.id # piece.id)
           IN  [g EXCEPT
                  !.pieces = Append(pieces, moved),
                  !.moveCount = g.moveCount + moveCount,
                  !.prevState = <<prevState>>]

canAttack(g, piece, x, y) ==
  LET victim == getPieceAtPosition(g, x, y)
  IN  \/ victim # <<>> /\ victim[1].color # piece.color
      \/ getEnPassantPiece(g, piece, x, y) # <<>>

canPromote(g, piece) ==
  /\ piece.type = "pawn"
  /\ \/ piece.color = "white" /\ cy(piece.coord) = 7
     \/ piece.color = "black" /\ cy(piece.coord) = 0

RECURSIVE getValidMoves(_, _, _)

getVulnerabilities(g, piece) ==
  SelectSeq(g.pieces, LAMBDA x :
    /\ x.color # piece.color
    /\ <<cx(piece.coord), cy(piece.coord)>> \in getValidMoves(g, x, TRUE))

isVulnerable(g, piece) == Len(getVulnerabilities(g, piece)) > 0

\* const king = game.pieces.find(x => x.color === color && x.type === 'king')
kingOf(g, color) == find(SelectSeq(g.pieces, LAMBDA x : x.color = color /\ x.type = "king"))

\* isInCheck returning false, and raising nothing, when the king is missing.
isInCheckThrows_Guarded(g, color) == FALSE

\* isInCheck raises a TypeError (piece.color of undefined, in the filter of
\* getVulnerabilities) when there is no king and at least one piece.
isInCheckThrows(g, color) == kingOf(g, color) = <<>> /\ g.pieces # <<>>

\* Its value when it raises nothing (with no piece at all, the filter of
\* getVulnerabilities never reads the undefined king and the result is false).
isInCheck(g, color) ==
  LET king == kingOf(g, color)
  IN  IF king = <<>> THEN FALSE ELSE isVulnerable(g, king[1])

\* canCastle without the test of the squares between king and rook.
canCastle_ThroughPieces(g, king, rook) ==
  /\ king.type = "king"
  /\ rook.type = "rook"
  /\ king.moveCount = 0
  /\ rook.moveCount = 0
  /\ ~isVulnerable(g, king)

\* canCastle asking where king and rook stand (on the squares they started
\* from) and not whether they have moved.
canCastle_HomeSquares(g, king, rook) ==
  /\ king.type = "king"
  /\ rook.type = "rook"
  /\ king.id = cx(king.coord) + 8 * cy(king.coord)
  /\ rook.id = cx(rook.coord) + 8 * cy(rook.coord)
  /\ Len(SelectSeq(g.pieces, LAMBDA x :
       /\ cy(x.coord) = cy(king.coord)
       /\ cx(x.coord) > min(cx(king.coord), cx(rook.coord))
       /\ cx(x.coord) < max(cx(king.coord), cx(rook.coord)))) = 0
  /\ ~isVulnerable(g, king)

canCastle(g, king, rook) ==
  /\ king.type = "king"
  /\ rook.type = "rook"
  /\ king.moveCount = 0
  /\ rook.moveCount = 0
  /\ Len(SelectSeq(g.pieces, LAMBDA x :
       /\ cy(x.coord) = cy(king.coord)
       /\ cx(x.coord) > min(cx(king.coord), cx(rook.coord))
       /\ cx(x.coord) < max(cx(king.coord), cx(rook.coord)))) = 0
  /\ ~isVulnerable(g, king)

\* The mark getValidMoves leaves in its result when a call it makes raises a
\* TypeError (the exception ends the whole call, whatever else was pushed).
TypeError == <<undefined, undefined>>

\* makeAttack pushing the square without asking whether the move leaves the
\* mover's king in check.
makeAttack_Unfiltered(g, piece, attacksOnly, x, y) ==
  LET hitPiece == getPieceAtPosition(g, x, y)
      inBounds == x >= 0 /\ y >= 0 /\ x < Size /\ y < Size
      hittingFriendly == hitPiece # <<>> /\ hitPiece[1].color = piece.color
  IN  IF inBounds /\ ~hittingFriendly
      THEN [ returns |-> TRUE,
             hit |-> hitPiece,
             pushed |->
               IF attacksOnly
               THEN IF hitPiece # <<>> /\ hitPiece[1].color # piece.color
                    THEN {<<x, y>>}
                    ELSE {}
               ELSE {<<x, y>>} ]
      ELSE [ returns |-> FALSE, hit |-> hitPiece, pushed |-> {} ]

\* makeAttack without the test that the square is on the board.
makeAttack_NoBounds(g, piece, attacksOnly, x, y) ==
  LET hitPiece == getPieceAtPosition(g, x, y)
      inBounds == TRUE
      hittingFriendly == hitPiece # <<>> /\ hitPiece[1].color = piece.color
  IN  IF inBounds /\ ~hittingFriendly
      THEN [ returns |-> TRUE,
             hit |-> hitPiece,
             pushed |->
               IF attacksOnly
               THEN IF hitPiece # <<>> /\ hitPiece[1].color # piece.color
                    THEN {<<x, y>>}
                    ELSE {}
               ELSE LET movedPiece == [piece EXCEPT !.coord = <<x, y>>]
                        moved == updatePiece(g, movedPiece, 1)
                        inCheck == isInCheck(moved, piece.color)
                    IN  IF updatePieceThrows(g, movedPiece) THEN {TypeError}
                        ELSE IF isInCheckThrows(moved, piece.color)
                        THEN {TypeError}
                        ELSE IF ~inCheck THEN {<<x, y>>} ELSE {} ]
      ELSE [ returns |-> FALSE, hit |-> hitPiece, pushed |-> {} ]

\* makeAttack pushing, with attacksOnly, every square it accepts, occupied
\* or not.
makeAttack_EmptySquares(g, piece, attacksOnly, x, y) ==
  LET hitPiece == getPieceAtPosition(g, x, y)
      inBounds == x >= 0 /\ y >= 0 /\ x < Size /\ y < Size
      hittingFriendly == hitPiece # <<>> /\ hitPiece[1].color = piece.color
  IN  IF inBounds /\ ~hittingFriendly
      THEN [ returns |-> TRUE,
             hit |-> hitPiece,
             pushed |->
               IF attacksOnly
               THEN {<<x, y>>}
               ELSE LET movedPiece == [piece EXCEPT !.coord = <<x, y>>]
                        moved == updatePiece(g, movedPiece, 1)
                        inCheck == isInCheck(moved, piece.color)
                    IN  IF updatePieceThrows(g, movedPiece) THEN {TypeError}
                        ELSE IF isInCheckThrows(moved, piece.color)
                        THEN {TypeError}
                        ELSE IF ~inCheck THEN {<<x, y>>} ELSE {} ]
      ELSE [ returns |-> FALSE, hit |-> hitPiece, pushed |-> {} ]

\* makeAttack(x, y): returns is its return value (in bounds and not a
\* friendly piece), pushed is what it pushes to possibleCoords, hit is its
\* hitPiece, which is also what the ray loop's getPieceAtPosition finds.
makeAttack(g, piece, attacksOnly, x, y) ==
  LET hitPiece == getPieceAtPosition(g, x, y)
      inBounds == x >= 0 /\ y >= 0 /\ x < Size /\ y < Size
      hittingFriendly == hitPiece # <<>> /\ hitPiece[1].color = piece.color
  IN  IF inBounds /\ ~hittingFriendly
      THEN [ returns |-> TRUE,
             hit |-> hitPiece,
             pushed |->
               IF attacksOnly
               THEN IF hitPiece # <<>> /\ hitPiece[1].color # piece.color
                    THEN {<<x, y>>}
                    ELSE {}
               ELSE LET movedPiece == [piece EXCEPT !.coord = <<x, y>>]
                        moved == updatePiece(g, movedPiece, 1)
                        inCheck == isInCheck(moved, piece.color)
                    IN  IF updatePieceThrows(g, movedPiece) THEN {TypeError}
                        ELSE IF isInCheckThrows(moved, piece.color)
                        THEN {TypeError}
                        ELSE IF ~inCheck THEN {<<x, y>>} ELSE {} ]
      ELSE [ returns |-> FALSE, hit |-> hitPiece, pushed |-> {} ]

\* (dx, dy) of makeAngleAttack's i-th direction:
\* sign(round(cos(i*2*PI/count + offset))), sign(round(sin(...))).
\* count = 8: the eight neighbours; count = 4, offset = 0: the four
\* orthogonal ones; count = 4, offset = PI/4 ("diagonal"): the diagonals.
angleDirections(count, diagonal) ==
  IF count = 8
  THEN << <<1, 0>>, <<1, 1>>, <<0, 1>>, <<-1, 1>>,
          <<-1, 0>>, <<-1, -1>>, <<0, -1>>, <<1, -1>> >>
  ELSE IF diagonal
  THEN << <<1, 1>>, <<-1, 1>>, <<-1, -1>>, <<1, -1>> >>
  ELSE << <<1, 0>>, <<0, 1>>, <<-1, 0>>, <<0, -1>> >>

RECURSIVE rayFrom_StopsWhenDropped(_, _, _, _, _, _, _, _, _)
\* The inner loop stopping the ray at a square the self-check filter dropped.
rayFrom_StopsWhenDropped(g, piece, attacksOnly, x, y, dx, dy, j, maxSteps) ==
  IF j >= maxSteps THEN {}
  ELSE LET a == makeAttack(g, piece, attacksOnly, x + dx, y + dy)
       IN  IF ~a.returns THEN {}
           ELSE a.pushed \cup
                (IF a.hit # <<>> \/ (~attacksOnly /\ a.pushed = {}) THEN {}
                 ELSE rayFrom_StopsWhenDropped(g, piece, attacksOnly, x + dx, y + dy, dx, dy,
                              j + 1, maxSteps))

RECURSIVE rayFrom(_, _, _, _, _, _, _, _, _)
\* The inner loop of makeAngleAttack from iteration j, standing on (x, y).
rayFrom(g, piece, attacksOnly, x, y, dx, dy, j, maxSteps) ==
  IF j >= maxSteps THEN {}
  ELSE LET a == makeAttack(g, piece, attacksOnly, x + dx, y + dy)
       IN  IF ~a.returns THEN {}
           ELSE a.pushed \cup
                (IF a.hit # <<>> THEN {}
                 ELSE rayFrom(g, piece, attacksOnly, x + dx, y + dy, dx, dy,
                              j + 1, maxSteps))

makeAngleAttack(g, piece, attacksOnly, count, diagonal, maxSteps) ==
  LET dirs == angleDirections(count, diagonal)
  IN  UNION { rayFrom(g, piece, attacksOnly, cx(piece.coord), cy(piece.coord),
                      dirs[i][1], dirs[i][2], 0, maxSteps) : i \in 1..count }

\* The pawn branch stepping forward onto an enemy piece as well.
pawnMoves_TakesAhead(g, piece, attacksOnly) ==
  LET direction == getDirection(g, piece)
      px == cx(piece.coord)
      py == cy(piece.coord)
      forward == <<px, py + direction>>
      forward2 == <<px, py + 2 * direction>>
      left == <<px - 1, py + direction>>
      right == <<px + 1, py + direction>>
      leftPiece == getPieceAtPosition(g, left[1], left[2])
      rightPiece == getPieceAtPosition(g, right[1], right[2])
      forwardPiece == getPieceAtPosition(g, forward[1], forward[2])
      forwardPiece2 == getPieceAtPosition(g, forward2[1], forward2[2])
      side(sq, sqPiece) ==
        IF sqPiece # <<>>
        THEN IF sqPiece[1].color # piece.color
             THEN makeAttack(g, piece, attacksOnly, sq[1], sq[2]).pushed ELSE {}
        ELSE IF getEnPassantPiece(g, piece, sq[1], sq[2]) # <<>>
             THEN makeAttack(g, piece, attacksOnly, sq[1], sq[2]).pushed ELSE {}
  IN  side(left, leftPiece) \cup side(right, rightPiece) \cup
      (IF forwardPiece = <<>> \/ forwardPiece[1].color # piece.color
       THEN makeAttack(g, piece, attacksOnly, forward[1], forward[2]).pushed \cup
            (IF forwardPiece2 = <<>> /\ piece.moveCount = 0
             THEN makeAttack(g, piece, attacksOnly, forward2[1], forward2[2]).pushed
             ELSE {})
       ELSE {})

pawnMoves(g, piece, attacksOnly) ==
  LET direction == getDirection(g, piece)
      px == cx(piece.coord)
      py == cy(piece.coord)
      forward == <<px, py + direction>>
      forward2 == <<px, py + 2 * direction>>
      left == <<px - 1, py + direction>>
      right == <<px + 1, py + direction>>
      leftPiece == getPieceAtPosition(g, left[1], left[2])
      rightPiece == getPieceAtPosition(g, right[1], right[2])
      forwardPiece == getPieceAtPosition(g, forward[1], forward[2])
      forwardPiece2 == getPieceAtPosition(g, forward2[1], forward2[2])
      side(sq, sqPiece) ==
        IF sqPiece # <<>>
        THEN IF sqPiece[1].color # piece.color
             THEN makeAttack(g, piece, attacksOnly, sq[1], sq[2]).pushed ELSE {}
        ELSE IF getEnPassantPiece(g, piece, sq[1], sq[2]) # <<>>
             THEN makeAttack(g, piece, attacksOnly, sq[1], sq[2]).pushed ELSE {}
  IN  side(left, leftPiece) \cup side(right, rightPiece) \cup
      (IF forwardPiece = <<>>
       THEN makeAttack(g, piece, attacksOnly, forward[1], forward[2]).pushed \cup
            (IF forwardPiece2 = <<>> /\ piece.moveCount = 0
             THEN makeAttack(g, piece, attacksOnly, forward2[1], forward2[2]).pushed
             ELSE {})
       ELSE {})

\* The castling part of the king's branch.
castlingMoves(g, piece, attacksOnly) ==
  LET rooks == SelectSeq(g.pieces, LAMBDA x :
                 x.type = "rook" /\ x.color = piece.color)
  IN  UNION { IF ~attacksOnly /\ canCastle(g, piece, rooks[i])
              THEN makeAttack(g, piece, attacksOnly,
                     cx(piece.coord) +
                       (IF cx(rooks[i].coord) < cx(piece.coord) THEN -2 ELSE 2),
                     cy(piece.coord)).pushed
              ELSE {} : i \in 1..Len(rooks) }

knightMoves(g, piece, attacksOnly) ==
  LET px == cx(piece.coord)
      py == cy(piece.coord)
  IN  UNION { makeAttack(g, piece, attacksOnly, px + pair[1], py + pair[2]).pushed \cup
              makeAttack(g, piece, attacksOnly, px - pair[1], py + pair[2]).pushed \cup
              makeAttack(g, piece, attacksOnly, px + pair[1], py - pair[2]).pushed \cup
              makeAttack(g, piece, attacksOnly, px - pair[1], py - pair[2]).pushed
              : pair \in {<<1, 2>>, <<2, 1>>} }

\* possibleCoords as a set: the callers only test membership and emptiness.
getValidMoves(g, piece, attacksOnly) ==
  IF piece.type = "pawn" THEN pawnMoves(g, piece, attacksOnly)
  ELSE IF piece.type = "queen"
  THEN makeAngleAttack(g, piece, attacksOnly, 8, FALSE, Infinity)
  ELSE IF piece.type = "rook"
  THEN makeAngleAttack(g, piece, attacksOnly, 4, FALSE, Infinity)
  ELSE IF piece.type = "bishop"
  THEN makeAngleAttack(g, piece, attacksOnly, 4, TRUE, Infinity)
  ELSE IF piece.type = "king"
  THEN makeAngleAttack(g, piece, attacksOnly, 8, FALSE, 1) \cup
       castlingMoves(g, piece, attacksOnly)
  ELSE IF piece.type = "knight" THEN knightMoves(g, piece, attacksOnly)
  ELSE {}

getValidMovesThrows(g, piece) == TypeError \in getValidMoves(g, piece, FALSE)

\* The pieces of a state, as a set.
Pieces(g) == { g.pieces[i] : i \in 1..Len(g.pieces) }

\* The squares of one ray on which makeAttack returns true: the loop of
\* makeAngleAttack walks on while makeAttack returns true (on the board, no
\* friendly piece) and the square it stands on holds no piece.
rayCandidates(g, piece, dx, dy, maxSteps) ==
  LET sq(k) == <<cx(piece.coord) + k * dx, cy(piece.coord) + k * dy>>
      free(k) == getPieceAtPosition(g, sq(k)[1], sq(k)[2]) = <<>>
      open(k) == /\ sq(k)[1] >= 0 /\ sq(k)[2] >= 0
                 /\ sq(k)[1] < Size /\ sq(k)[2] < Size
                 /\ \A q \in Pieces(g) : q.coord = sq(k) => q.color # piece.color
  IN  { sq(k) : k \in { n \in 1..maxSteps :
                         open(n) /\ \A j \in 1..(n - 1) : open(j) /\ free(j) } }

\* The squares (x, y) for which a call getValidMoves(game, piece, false)
\* reaches the else branch of makeAttack, where the move is simulated:
\* every call site of makeAttack, kept when the square is on the board and
\* holds no friendly piece.
candidates(g, piece) ==
  LET px == cx(piece.coord)
      py == cy(piece.coord)
      direction == getDirection(g, piece)
      empty(sq) == getPieceAtPosition(g, sq[1], sq[2]) = <<>>
      enemy(sq) == \E q \in Pieces(g) : q.coord = sq /\ q.color # piece.color
      side(sq) == IF ~empty(sq)
                  THEN IF enemy(sq) THEN {sq} ELSE {}
                  ELSE IF getEnPassantPiece(g, piece, sq[1], sq[2]) # <<>>
                       THEN {sq} ELSE {}
      forward == <<px, py + direction>>
      forward2 == <<px, py + 2 * direction>>
      rays(count, diagonal, maxSteps) ==
        UNION { rayCandidates(g, piece, angleDirections(count, diagonal)[i][1],
                              angleDirections(count, diagonal)[i][2], maxSteps)
                : i \in 1..count }
      called ==
        IF piece.type = "pawn"
        THEN side(<<px - 1, py + direction>>) \cup
             side(<<px + 1, py + direction>>) \cup
             (IF empty(forward)
              THEN {forward} \cup
                   (IF empty(forward2) /\ piece.moveCount = 0
                    THEN {forward2} ELSE {})
              ELSE {})
        ELSE IF piece.type = "queen" THEN rays(8, FALSE, Infinity)
        ELSE IF piece.type = "rook" THEN rays(4, FALSE, Infinity)
        ELSE IF piece.type = "bishop" THEN rays(4, TRUE, Infinity)
        ELSE IF piece.type = "king"
        THEN rays(8, FALSE, 1) \cup
             { <<px + (IF cx(rook.coord) < px THEN -2 ELSE 2), py>> :
               rook \in { q \in Pieces(g) :
                            /\ q.type = "rook" /\ q.color = piece.color
                            /\ canCastle(g, piece, q) } }
        ELSE IF piece.type = "knight"
        THEN { <<px + a * pair[1], py + b * pair[2]>> :
               a \in {1, -1}, b \in {1, -1}, pair \in {<<1, 2>>, <<2, 1>>} }
        ELSE {}
  IN  { sq \in called :
          /\ sq[1] >= 0 /\ sq[2] >= 0 /\ sq[1] < Size /\ sq[2] < Size
          /\ ~\E q \in Pieces(g) : q.coord = sq /\ q.color = piece.color }

\* ---- The calls the functions of chess.js make to one another.  A frame is
\* one activation: the function, its game, its piece (none for canMove and
\* isInCheck, which take a color), attacksOnly and the rook of canCastle.
frame(fn, g, piece, color, attacksOnly, rook) ==
  [ fn |-> fn, g |-> g, piece |-> piece, color |-> color,
    attacksOnly |-> attacksOnly, rook |-> rook ]

\* makeAttack simulating the move whatever attacksOnly is.
simulates_Always(attacksOnly) == TRUE

\* makeAttack simulates the move (updatePiece, isInCheck) in the else branch
\* of "if (attacksOnly)", and the castling loop asks canCastle only behind
\* "!attacksOnly &&".
simulates(attacksOnly) == ~attacksOnly

\* The activations one activation starts directly.
callsOf(f) ==
  IF f.fn = "canMove"
  THEN { frame("getValidMoves", f.g, <<x>>, x.color, FALSE, <<>>) :
         x \in { q \in Pieces(f.g) : q.color = f.color } }
  ELSE IF f.fn = "getValidMoves"
  THEN IF ~simulates(f.attacksOnly) THEN {}
       ELSE LET piece == f.piece[1]
                movedTo(sq) == [piece EXCEPT !.coord = sq]
                sqs == candidates(f.g, piece)
            IN  { frame("updatePiece", f.g, <<movedTo(sq)>>, piece.color,
                        FALSE, <<>>) : sq \in sqs } \cup
                { frame("isInCheck", updatePiece(f.g, movedTo(sq), 1), <<>>,
                        piece.color, FALSE, <<>>) :
                  sq \in { c \in sqs : ~updatePieceThrows(f.g, movedTo(c)) } } \cup
                { frame("canCastle", f.g, f.piece, piece.color, FALSE, <<rook>>) :
                  rook \in { q \in Pieces(f.g) :
                               /\ piece.type = "king"
                               /\ q.type = "rook" /\ q.color = piece.color } }
  ELSE IF f.fn = "isInCheck"
  THEN { frame("isVulnerable", f.g, kingOf(f.g, f.color), f.color, FALSE, <<>>) }
  ELSE IF f.fn = "canCastle"
  THEN IF /\ f.piece[1].type = "king" /\ f.rook[1].type = "rook"
          /\ f.piece[1].moveCount = 0 /\ f.rook[1].moveCount = 0
          /\ Len(SelectSeq(f.g.pieces, LAMBDA x :
               /\ cy(x.coord) = cy(f.piece[1].coord)
               /\ cx(x.coord) > min(cx(f.piece[1].coord), cx(f.rook[1].coord))
               /\ cx(x.coord) < max(cx(f.piece[1].coord), cx(f.rook[1].coord)))) = 0
       THEN { frame("isVulnerable", f.g, f.piece, f.color, FALSE, <<>>) }
       ELSE {}
  ELSE IF f.fn = "isVulnerable"
  THEN { frame("getVulnerabilities", f.g, f.piece, f.color, FALSE, <<>>) }
  ELSE IF f.fn = "getVulnerabilities"
  THEN IF f.piece = <<>> THEN {}
       ELSE { frame("getValidMoves", f.g, <<x>>, x.color, TRUE, <<>>) :
              x \in { q \in Pieces(f.g) : q.color # f.piece[1].color } }
  ELSE {}

\* canMove asking whether any piece at all, of either color, has a move.
canMove_AnyColor(g, color) ==
  \E i \in 1..Len(g.pieces) : getValidMoves(g, g.pieces[i], FALSE) # {}

canMove(g, color) ==
  \E i \in 1..Len(g.pieces) :
    g.pieces[i].color = color /\ getValidMoves(g, g.pieces[i], FALSE) # {}

\* ---- isValidMove.  Its second argument arrives as JSON from a client, so
\* its values carry the JS types the structural test reads: a submitted state
\* is [isObject, piecesIsArray, pieces, moveCount, prevState, id] and a submitted
\* piece [id, hasId, type, moveCount, color, coord, coordIsArray]; the first
\* argument is <<>> (missing) or <<the stored state>>.

\* The piece record the engine works on (the tags say nothing more once the
\* structural test has found every coord an array and every id defined).
asPiece(x) ==
  [ id |-> x.id, type |-> x.type, moveCount |-> x.moveCount,
    color |-> x.color, coord |-> x.coord ]

asState(state) ==
  [ pieces |-> [i \in 1..Len(state.pieces) |-> asPiece(state.pieces[i])],
    moveCount |-> state.moveCount,
    prevState |-> state.prevState,
    id |-> state.id ]

\* The client's encoding of a state of the engine.
toJSON(g) ==
  [ isObject |-> TRUE,
    piecesIsArray |-> TRUE,
    pieces |-> [i \in 1..Len(g.pieces) |->
                 [ id |-> g.pieces[i].id, hasId |-> TRUE,
                   type |-> g.pieces[i].type,
                   moveCount |-> g.pieces[i].moveCount,
                   color |-> g.pieces[i].color,
                   coord |-> g.pieces[i].coord, coordIsArray |-> TRUE ]],
    moveCount |-> g.moveCount,
    prevState |-> g.prevState,
    id |-> g.id ]

\* The first test of isValidMove (true: the function goes on).
isStructured(prevState, state) ==
  /\ prevState # <<>>
  /\ state.isObject
  /\ state.piecesIsArray
  /\ \A i \in 1..Len(state.pieces) :
       LET x == state.pieces[i]
       IN  /\ x.type \in PIECE_NAMES
           /\ x.coordIsArray
           /\ x.color \in {"black", "white"}
           /\ x.hasId

movedPieces(prevState, state) ==
  SelectSeq(state.pieces, LAMBDA x :
    LET y == getPieceAtPosition(prevState, cx(x.coord), cy(x.coord))
    IN  y = <<>> \/ y[1].id # x.id \/ y[1].type # x.type)

\* isValid replaying the piece with the moveCount the new state gives it
\* (updatePiece then counts the half-move twice).
isValid_NoDecrement(prevState, state, piece) ==
  LET oldPiece == oldPieceOf(prevState, piece)
  IN  IF updatePieceThrows(prevState, piece) THEN "throws"
      ELSE IF updatePiece(prevState, piece, 1) # state THEN "false"
      ELSE LET valid == getValidMoves(prevState, oldPiece[1], FALSE)
           IN  IF TypeError \in valid THEN "throws"
               ELSE IF <<cx(piece.coord), cy(piece.coord)>> \in valid
               THEN "true"
               ELSE "false"

\* isValid(piece): "true", "false" or "throws".  JSON.stringify(a) ===
\* JSON.stringify(b) is the equality of the two values (both are built by the
\* same spreads, so their keys come in the same order).
isValid(prevState, state, piece) ==
  LET oldPiece == oldPieceOf(prevState, piece)
      replayed == [piece EXCEPT !.moveCount = piece.moveCount - 1]
  IN  IF updatePieceThrows(prevState, replayed) THEN "throws"
      ELSE IF updatePiece(prevState, replayed, 1) # state THEN "false"
      ELSE LET valid == getValidMoves(prevState, oldPiece[1], FALSE)
           IN  IF TypeError \in valid THEN "throws"
               ELSE IF <<cx(piece.coord), cy(piece.coord)>> \in valid
               THEN "true"
               ELSE "false"

\* isValidMove taking two moved pieces, one of them a king, for a castling
\* without replaying it.
isValidMove_KingPairTrusted(prevState, state) ==
  IF ~isStructured(prevState, state) THEN "false"
  ELSE LET prev == prevState[1]
           st == asState(state)
           moved == movedPieces(prev, st)
           king == find(SelectSeq(moved, LAMBDA x : x.type = "king"))
       IN  IF Len(moved) = 1 THEN isValid(prev, st, moved[1])
           ELSE IF Len(moved) = 2
           THEN IF king = <<>> THEN "false" ELSE "true"
           ELSE "false"

\* isValidMove(prevState, state): "true", "false" or "throws".
isValidMove(prevState, state) ==
  IF ~isStructured(prevState, state) THEN "false"
  ELSE CHOOSE r \in UNION { UNION { {
         LET king == find(SelectSeq(moved, LAMBDA x : x.type = "king"))
         IN  IF Len(moved) = 1 THEN isValid(prev, st, moved[1])
             ELSE IF Len(moved) = 2
             THEN IF king = <<>> THEN "false" ELSE isValid(prev, st, king[1])
             ELSE "false" }
         : moved \in {movedPieces(prev, st)} }
         : prev \in {prevState[1]}, st \in {asState(state)} } : TRUE

\* ------------------------------------------------- client: Game (App.js)
\* const turn = game.moveCount % 2 === 0 ? 'white' : 'black'
turn(g) == IF g.moveCount % 2 = 0 THEN "white" ELSE "black"

\* const gameOver = !canMove(game, turn)
gameOver(g) == ~canMove(g, turn(g))

\* The text of the dialog shown when the game is over ("" when it is not).
outcome(g) ==
  IF gameOver(g)
  THEN (IF isInCheck(g, turn(g)) THEN "Checkmate: " ELSE "Stalemate: ")
  ELSE ""

\* ------------------------------------------------- objects with identity
\* A JavaScript object lives at a reference (an index of the heap): a game
\* object holds the reference of its pieces array and of its prevState
\* object (0: the property is absent); an array object holds its items.
\* Piece objects are written by value: no statement of chess.js assigns to
\* a property of a piece.
gameObject(pieces, moveCount, prevState, id) ==
  [kind |-> "game", pieces |-> pieces, moveCount |-> moveCount,
   prevState |-> prevState, id |-> id, items |-> <<>>]

arrayObject(items) ==
  [kind |-> "array", pieces |-> 0, moveCount |-> 0, prevState |-> 0,
   id |-> "", items |-> items]

\* What a reader of the game object at reference r sees.
RECURSIVE deref(_, _)
deref(h, r) ==
  [ pieces |-> h[h[r].pieces].items,
    moveCount |-> h[r].moveCount,
    prevState |-> IF h[r].prevState = 0 THEN <<>>
                  ELSE <<deref(h, h[r].prevState)>>,
    id |-> h[r].id ]

\* { ...makeGame(), id }: the array createPieces built, then the game.
heapOfMakeGame(id) ==
  << arrayObject(createPieces), gameObject(1, 0, 0, id) >>

\* updatePiece pushing onto game.pieces itself instead of onto the array
\* filter returned.
updatePieceOnHeap_PushesInPlace(h, gref, piece, moveCount) ==
  LET r == updatePiece(deref(h, gref), piece, moveCount)
      prevRef == Len(h) + 1
      h1 == Append(h, [h[gref] EXCEPT !.prevState = 0])
      h3 == [h1 EXCEPT ![h[gref].pieces].items = r.pieces]
  IN  [ heap |-> Append(h3, [h[gref] EXCEPT
                               !.moveCount = @ + moveCount,
                               !.prevState = prevRef]),
        ref |-> Len(h) + 2 ]

\* updatePiece on objects: prevState = {...game} is a new object that
\* shares game.pieces, and delete acts on that copy; game.pieces.filter
\* returns a new array (the result's pieces without the one or two pushed
\* last) and push acts on that array; the returned {...game, pieces,
\* moveCount, prevState} is a new object.
updatePieceOnHeap(h, gref, piece, moveCount) ==
  LET g == deref(h, gref)
      r == updatePiece(g, piece, moveCount)
      pushes == IF didCastleOf(g, piece) THEN 2 ELSE 1
      prevRef == Len(h) + 1
      arrRef == Len(h) + 2
      h1 == Append(h, [h[gref] EXCEPT !.prevState = 0])
      h2 == Append(h1, arrayObject(SubSeq(r.pieces, 1, Len(r.pieces) - pushes)))
      h3 == [h2 EXCEPT ![arrRef].items = r.pieces]
  IN  [ heap |-> Append(h3, [h[gref] EXCEPT
                               !.pieces = arrRef,
                               !.moveCount = @ + moveCount,
                               !.prevState = prevRef]),
        ref |-> Len(h) + 3 ]

\* The orders an array can be left in by sort with the comparator
\* (a, b) => a.coord[0] < b.coord[0], which answers true or false and never
\* a negative number: the order is up to the engine's algorithm.
sortOutcomes(items) ==
  { t \in [1..Len(items) -> { items[k] : k \in 1..Len(items) }] :
      \A k \in 1..Len(items) : \E j \in 1..Len(items) : t[j] = items[k] }

\* getValidMoves for a king on objects: game.pieces.filter returns a new
\* array of the rooks of its color, and sort orders that array in place.
\* (possibleCoords holds coordinates and is local to the call; the other
\* queries, canMove, isInCheck and isValidMove, allocate through
\* getValidMoves and updatePiece only.)
getValidMovesOnHeap(h, gref, piece) ==
  LET g == deref(h, gref)
      rooks == SelectSeq(g.pieces, LAMBDA x :
                 x.type = "rook" /\ x.color = piece.color)
  IN  { Append(h, arrayObject(t)) : t \in sortOutcomes(rooks) }

\* The players' repertoires: the moves <<piece id, file, rank>> the two
\* players of one game of the model choose among.
Books ==
  << \* 1: pawns meeting in the centre (captures, en passant by both sides)
     { <<12, 4, 3>>, <<12, 4, 4>>, <<12, 3, 5>>, <<12, 3, 4>>,
       <<8, 0, 2>>, <<8, 0, 3>>,
       <<51, 3, 4>>, <<51, 3, 3>>, <<51, 4, 2>>, <<51, 4, 3>>,
       <<48, 0, 5>> },
     \* 2: white clears its short side and castles; a black knight and the
     \* black queen come down
     { <<11, 3, 2>>, <<2, 3, 1>>, <<1, 2, 2>>, <<3, 1, 0>>, <<3, 2, 0>>,
       <<0, 1, 0>>,
       <<3, 2, 1>>,
       <<57, 2, 5>>, <<57, 3, 3>>, <<57, 4, 1>>,
       <<51, 3, 5>>, <<60, 0, 3>>, <<60, 0, 1>>, <<60, 2, 1>> },
     \* 3: white opens the diagonal of its king and the black queen mates
     { <<10, 2, 2>>, <<9, 1, 3>>, <<51, 3, 5>>, <<60, 0, 3>> } >>

\* The id of the one game of the model, and another one.
GameId == "g1"
OtherId == "g2"

Init ==
  /\ game = newGame(GameId)
  /\ book \in 1..Len(Books)
  /\ stored = newGame(GameId)
  /\ calls = 0
  /\ heap = heapOfMakeGame(GameId)
  /\ held = << [ref |-> 2, value |-> newGame(GameId)] >>
  /\ requests = [c \in 1..MaxClients |-> idle]
  /\ everMoved = {}
  /\ ui = noUi
  /\ net = {}

\* A player clicks an enabled piece (its color is the viewer's and the
\* turn's), then one of the slots PieceMover shows: onUpdate.
Move(i, d) ==
  LET piece == game.pieces[i]
  IN  /\ game.moveCount < MaxPlies
      /\ piece.color = turn(game)
      /\ <<piece.id, d[1], d[2]>> \in Books[book]
      /\ d \in getValidMoves(game, piece, FALSE)
      /\ game' = updatePiece(game, [piece EXCEPT !.coord = d], 1)
      /\ calls' = calls + 1
      /\ everMoved' = everMoved \cup displaced(game, [piece EXCEPT !.coord = d])
      /\ UNCHANGED <<book, stored, heap, held, requests, ui, net>>

Squares == (0..(Size - 1)) \X (0..(Size - 1))

Next ==
  \E i \in 1..Len(game.pieces) : \E d \in Squares : Move(i, d)

Spec == Init /\ [][Next]_vars

\* ---- games past their opening: the game has been played along one of
\* these lines (each a legal game from makeGame(), the players moving in
\* turn), and goes on from there within the repertoire of that line.
Openings ==
  << \* 1: a white pawn takes on (5, 6) and stands before the black back rank
     << <<12, 4, 3>>, <<57, 2, 5>>, <<12, 4, 4>>, <<57, 1, 7>>,
        <<12, 4, 5>>, <<57, 2, 5>>, <<12, 5, 6>>, <<57, 1, 7>> >>,
     \* 2: white clears the squares between its king and the rook of file 0
     << <<11, 3, 2>>, <<57, 2, 5>>, <<2, 3, 1>>, <<57, 1, 7>>,
        <<1, 2, 2>>, <<57, 2, 5>> >>,
     \* 3: a black pawn has just double-stepped beside a white pawn
     << <<12, 4, 3>>, <<48, 0, 5>>, <<12, 4, 4>>, <<51, 3, 4>> >>,
     \* 4: the white queen checks the black king along the open file 3
     << <<11, 3, 3>>, <<52, 4, 4>>, <<11, 4, 4>>, <<51, 3, 5>>,
        <<8, 0, 2>>, <<51, 4, 4>>, <<4, 3, 1>> >> >>

LateBooks ==
  << { <<12, 6, 7>>, <<12, 4, 7>>, <<57, 2, 5>>, <<57, 1, 7>>, <<57, 0, 5>>,
       <<8, 0, 2>>, <<8, 0, 3>>, <<48, 0, 5>> },
     { <<3, 2, 0>>, <<3, 3, 0>>, <<3, 1, 0>>, <<0, 1, 0>>, <<0, 0, 0>>,
       <<0, 2, 0>>, <<57, 1, 7>>, <<57, 2, 5>>, <<57, 3, 3>> },
     { <<12, 3, 5>>, <<12, 4, 5>>, <<12, 2, 6>>, <<12, 4, 6>>, <<8, 0, 2>>,
       <<48, 0, 4>>, <<51, 3, 3>>, <<50, 2, 5>>, <<50, 2, 4>>, <<52, 4, 5>>,
       <<60, 3, 6>> },
     { <<61, 3, 5>>, <<60, 3, 6>>, <<59, 4, 6>>, <<58, 3, 6>>, <<4, 3, 5>>,
       <<4, 3, 6>>, <<8, 0, 3>>, <<48, 0, 5>> } >>

pieceOfId(g, id) == find(SelectSeq(g.pieces, LAMBDA x : x.id = id))

\* The game after the half-moves of line, from g.
RECURSIVE playedFrom(_, _)
playedFrom(g, line) ==
  IF line = <<>> THEN g
  ELSE playedFrom(
         updatePiece(g, [pieceOfId(g, line[1][1])[1]
                           EXCEPT !.coord = <<line[1][2], line[1][3]>>], 1),
         Tail(line))

\* Every half-move of line is one the client lets the player make: the
\* piece is on the board, it is its color's turn, and the destination is
\* among its getValidMoves (none is a castling).
RECURSIVE legalFrom(_, _)
legalFrom(g, line) ==
  IF line = <<>> THEN TRUE
  ELSE IF pieceOfId(g, line[1][1]) = <<>> THEN FALSE
  ELSE LET piece == pieceOfId(g, line[1][1])[1]
           d == <<line[1][2], line[1][3]>>
       IN  IF /\ piece.color = turn(g)
              /\ d \in getValidMoves(g, piece, FALSE)
              /\ ~didCastleOf(g, [piece EXCEPT !.coord = d])
           THEN legalFrom(playedFrom(g, <<line[1]>>), Tail(line))
           ELSE FALSE

InitLate ==
  /\ book \in 1..Len(Openings)
  /\ legalFrom(newGame(GameId), Openings[book])
  /\ game = playedFrom(newGame(GameId), Openings[book])
  /\ stored = newGame(GameId)
  /\ calls = Len(Openings[book])
  /\ heap = heapOfMakeGame(GameId)
  /\ held = << [ref |-> 2, value |-> newGame(GameId)] >>
  /\ requests = [c \in 1..MaxClients |-> idle]
  /\ everMoved = { Openings[book][k][1] : k \in 1..Len(Openings[book]) }
  /\ ui = noUi
  /\ net = {}

\* onUpdate from a slot of PieceMover, as Move.
Play(i, d) ==
  LET piece == game.pieces[i]
  IN  /\ calls < Len(Openings[book]) + MaxLate
      /\ piece.color = turn(game)
      /\ <<piece.id, d[1], d[2]>> \in LateBooks[book]
      /\ d \in getValidMoves(game, piece, FALSE)
      /\ game' = updatePiece(game, [piece EXCEPT !.coord = d], 1)
      /\ calls' = calls + 1
      /\ everMoved' = everMoved \cup displaced(game, [piece EXCEPT !.coord = d])
      /\ UNCHANGED <<book, stored, heap, held, requests, ui, net>>

\* The types PromoteMenu shows for the selected piece.
promoteTypes(g, piece) ==
  IF canPromote(g, piece) THEN {"queen", "knight", "bishop", "rook"} ELSE {}

\* A player clicks an enabled piece (its color is the turn's), then one of
\* the pieces PromoteMenu shows: onUpdate({...piece, type}).
Promote(i, type) ==
  LET piece == game.pieces[i]
  IN  /\ calls < Len(Openings[book]) + MaxLate
      /\ piece.color = turn(game)
      /\ type \in promoteTypes(game, piece)
      /\ game' = updatePiece(game, [piece EXCEPT !.type = type], 1)
      /\ calls' = calls + 1
      /\ everMoved' = everMoved \cup {piece.id}
      /\ UNCHANGED <<book, stored, heap, held, requests, ui, net>>

NextLate ==
  \/ \E i \in 1..Len(game.pieces) : \E d \in Squares : Play(i, d)
  \/ \E i \in 1..Len(game.pieces) : \E type \in PIECE_NAMES : Promote(i, type)

SpecLate == InitLate /\ [][NextLate]_vars

\* ---- the engine called directly: any piece, whatever its color, is moved
\* to a destination getValidMoves returned for it (nothing in chess.js, and
\* nothing in the server, asks whose turn it is).
Apply(i, d) ==
  LET piece == game.pieces[i]
  IN  /\ game.moveCount < MaxCalls
      /\ <<piece.id, d[1], d[2]>> \in Books[book]
      /\ d \in getValidMoves(game, piece, FALSE)
      /\ game' = updatePiece(game, [piece EXCEPT !.coord = d], 1)
      /\ calls' = calls + 1
      /\ everMoved' = everMoved \cup displaced(game, [piece EXCEPT !.coord = d])
      /\ UNCHANGED <<book, stored, heap, held, requests, ui, net>>

NextEngine ==
  \E i \in 1..Len(game.pieces) : \E d \in Squares : Apply(i, d)

SpecEngine == Init /\ [][NextEngine]_vars

\* The arrays no game object refers to: those the queries allocated.
temporaries(h) ==
  { r \in 1..Len(h) :
      /\ h[r].kind = "array"
      /\ \A q \in 1..Len(h) : h[q].kind = "game" => h[q].pieces # r }

\* ---- callers that keep the states they were given: updatePiece is called
\* on any state a caller holds, not only on the newest, and the queries run
\* on any of them.
HeapUpdate(k, i, d) ==
  LET g == deref(heap, held[k].ref)
      piece == g.pieces[i]
      r == updatePieceOnHeap(heap, held[k].ref, [piece EXCEPT !.coord = d], 1)
  IN  /\ Len(heap) + 3 <= MaxObjects
      /\ i \in 1..Len(g.pieces)
      /\ <<piece.id, d[1], d[2]>> \in Books[book]
      /\ d \in getValidMoves(g, piece, FALSE)
      /\ heap' = r.heap
      /\ held' = Append(held, [ref |-> r.ref, value |-> deref(r.heap, r.ref)])
      /\ game' = updatePiece(g, [piece EXCEPT !.coord = d], 1)
      /\ calls' = calls + 1
      /\ everMoved' = everMoved \cup displaced(g, [piece EXCEPT !.coord = d])
      /\ UNCHANGED <<book, stored, requests, ui, net>>

HeapQuery(k, c) ==
  LET g == deref(heap, held[k].ref)
  IN  /\ Len(heap) + 1 <= MaxObjects
      /\ Cardinality(temporaries(heap)) < MaxQueries
      /\ kingOf(g, c) # <<>>
      /\ heap' \in getValidMovesOnHeap(heap, held[k].ref, kingOf(g, c)[1])
      /\ UNCHANGED <<game, book, stored, calls, held, requests, everMoved, ui, net>>

NextHeap ==
  \/ \E k \in 1..Len(held) : \E i \in 1..32 : \E d \in Squares :
       HeapUpdate(k, i, d)
  \/ \E k \in 1..Len(held) : \E c \in {"white", "black"} : HeapQuery(k, c)

SpecHeap == Init /\ [][NextHeap]_vars

\* ------------------------------------------------------ what clients send
\* The state the client builds for moving piece to d.
moveTo(g, piece, d) == updatePiece(g, [piece EXCEPT !.coord = d], 1)

\* A request body is made from a state s a client built with updatePiece, by
\* one of these edits (n is the index of the last piece of s, the one
\* updatePiece pushed last).
edited(g, s, e) ==
  LET j == toJSON(s)
      n == Len(s.pieces)
  IN  CASE e = "none" -> j
        [] e = "coord3" -> [j EXCEPT !.pieces[n].coord = @ \o <<0>>]
        [] e = "coord1" -> [j EXCEPT !.pieces[n - 1].coord = <<@[1]>>]
        [] e = "coordNoArray" -> [j EXCEPT !.pieces[n].coordIsArray = FALSE]
        [] e = "noId" -> [j EXCEPT !.pieces[n].hasId = FALSE]
        [] e = "type" -> [j EXCEPT !.pieces[1].type = "dragon"]
        [] e = "color" -> [j EXCEPT !.pieces[1].color = "green"]
        [] e = "null" -> [j EXCEPT !.isObject = FALSE]
        [] e = "piecesNoArray" -> [j EXCEPT !.piecesIsArray = FALSE]
        [] e = "moveCount" -> [j EXCEPT !.pieces[n].moveCount = @ + 3]
        [] e = "last" -> [j EXCEPT !.pieces[n].coord = <<0, 4>>]
        [] e = "first" -> [j EXCEPT !.pieces[1].coord = <<7, 4>>]
        [] e = "first2" -> [j EXCEPT !.pieces[1].coord = <<7, 4>>,
                                     !.pieces[2].coord = <<6, 4>>]
        [] e = "unmoved" -> [toJSON(g) EXCEPT !.moveCount = @ + 1]
        [] e = "otherGame" -> [j EXCEPT !.id = OtherId]

CountEdits == {"none", "last", "first", "first2", "unmoved"}
ShapeEdits == {"coord3", "coord1", "coordNoArray", "noId", "type", "color",
               "null", "piecesNoArray"}
Edits == CountEdits \cup ShapeEdits \cup {"moveCount", "otherGame"}

\* The squares a client tries for a piece: the ones getValidMoves offers, a
\* jump three ranks ahead and the jumps two files sideways.
tried(g, p) ==
  (getValidMoves(g, p, FALSE) \cup
   { <<p.coord[1], p.coord[2] + 3 * getDirection(g, p)>>,
     <<p.coord[1] + 2, p.coord[2]>>, <<p.coord[1] - 2, p.coord[2]>> })
  \cap Squares

\* The piece as the client passes it to updatePiece: moved to d, and with
\* the type and color the client writes into it.
passed(p, d, kind) ==
  CASE kind = "same" -> [p EXCEPT !.coord = d]
    [] kind = "king" -> [p EXCEPT !.coord = d, !.type = "king"]
    [] kind = "queen" -> [p EXCEPT !.coord = d, !.type = "queen"]
    [] kind = "turncoat" ->
         [p EXCEPT !.coord = d,
                   !.color = IF p.color = "white" THEN "black" ELSE "white"]

Kinds == {"same", "king", "queen", "turncoat"}

\* The bodies clients post against the state g, for the pieces in movers:
\* a piece written over (kind other than "same") is posted unedited.
bodiesFor(g, p, kinds, edits) ==
  LET ds == tried(g, p)
  IN  { edited(g, updatePiece(g, passed(p, x[1], x[2]), 1), x[3]) :
          x \in { y \in ds \X kinds \X edits :
                    /\ ~updatePieceThrows(g, passed(p, y[1], y[2]))
                    /\ y[2] # "same" => y[3] = "none" } }

Submissions(g, movers, kinds, edits) ==
  UNION { bodiesFor(g, p, kinds, edits) : p \in movers }

\* ------------------------------------------------------------- server.js
\* The pieces the clients of the server model move.
ServerMovers == {12, 57}

\* The handler of api.post('/games/:id'): record is what client.get gives
\* for games:<id> (<<>>: nothing stored), submitted is req.body.game (<<>>:
\* the body has no game), setFails tells whether client.set reports an
\* error. Its value is the answer and the record afterwards; the answer
\* "TypeError" is an exception raised in the callback of client.get
\* (newGame.id of undefined or of null, or isValidMove raising), where no
\* answer is sent.
postGame(record, id, submitted, setFails) ==
  IF record = <<>> THEN [answer |-> "404", record |-> record]
  ELSE IF submitted = <<>> \/ ~submitted[1].isObject
  THEN [answer |-> "TypeError", record |-> record]
  ELSE IF submitted[1].id # id THEN [answer |-> "400", record |-> record]
  ELSE \* isValidMove is called once, and its outcome decides
       CHOOSE r \in
         { IF valid = "throws" THEN [answer |-> "TypeError", record |-> record]
           ELSE IF valid = "false" THEN [answer |-> "400", record |-> record]
           ELSE IF setFails THEN [answer |-> "500", record |-> record]
           ELSE [answer |-> "json", record |-> <<asState(submitted[1])>>]
           : valid \in {isValidMove(record, submitted[1])} } : TRUE

InitServer ==
  /\ game = newGame(GameId)
  /\ book = 1
  /\ stored = newGame(GameId)
  /\ calls = 0
  /\ heap = heapOfMakeGame(GameId)
  /\ held = << [ref |-> 2, value |-> newGame(GameId)] >>
  /\ requests = [c \in 1..MaxClients |-> idle]
  /\ everMoved = {}
  /\ ui = noUi
  /\ net = {}

\* api.post('/games/:id') for :id = GameId, which is stored: the body is
\* validated against the stored game and replaces it when valid (the
\* answers 400 and 404, and a TypeError raised in the callback, leave it).
Post(body) ==
  /\ stored.moveCount < MaxPosts
  /\ stored' = postGame(<<stored>>, GameId, <<body>>, FALSE).record[1]
  /\ UNCHANGED <<game, book, calls, heap, held, requests, everMoved, ui, net>>

NextServer ==
  \E body \in Submissions(stored,
                           { p \in Pieces(stored) : p.id \in ServerMovers },
                           {"same", "king"}, Edits) :
    Post(body)

SpecServer == InitServer /\ [][NextServer]_vars

\* ---- api.post('/games/:id') step by step, for requests handled at the
\* same time: the handler issues client.get; redis runs the get; the
\* callback validates the body against the result and issues client.set;
\* redis runs the set. (Redis runs the commands of one connection in the
\* order they were issued; the steps below let sets run in either order,
\* which reaches no other record, because the callbacks, which issue them,
\* write nothing and can run in either order.)
Request(c, body) ==
  /\ requests[c].pc = "idle"
  /\ requests' = [requests EXCEPT ![c].pc = "get", ![c].body = <<body>>]
  /\ UNCHANGED <<game, book, stored, calls, heap, held, everMoved, ui, net>>

RedisGet(c) ==
  /\ requests[c].pc = "get"
  /\ requests' = [requests EXCEPT ![c].pc = "callback",
                                  ![c].result = <<stored>>]
  /\ UNCHANGED <<game, book, stored, calls, heap, held, everMoved, ui, net>>

\* The callback of client.get: res.status(400), an exception, or client.set
\* issued.
GetCallback(c) ==
  /\ requests[c].pc = "callback"
  /\ \E r \in {postGame(requests[c].result, GameId, requests[c].body, FALSE)} :
       requests' = [requests EXCEPT
                      ![c].pc = IF r.answer = "json" THEN "set" ELSE r.answer]
  /\ UNCHANGED <<game, book, stored, calls, heap, held, everMoved, ui, net>>

\* Redis runs the set: the record is replaced (before keeps the record the
\* set replaced), and the callback of client.set answers res.json.
RedisSet(c) ==
  /\ requests[c].pc = "set"
  /\ stored' = asState(requests[c].body[1])
  /\ requests' = [requests EXCEPT ![c].pc = "json", ![c].before = <<stored>>]
  /\ UNCHANGED <<game, book, calls, heap, held, everMoved, ui, net>>

NextRace ==
  \/ \E c \in 1..MaxClients :
       \E body \in Submissions(stored,
                    { p \in Pieces(stored) : p.id \in ServerMovers },
                    {"same"}, {"none"}) :
         Request(c, body)
  \/ \E c \in 1..MaxClients : RedisGet(c)
  \/ \E c \in 1..MaxClients : GetCallback(c)
  \/ \E c \in 1..MaxClients : RedisSet(c)

SpecRace == InitServer /\ [][NextRace]_vars

\* ---- one browser tab on the game GameId (hooks.js useGame, App.js Game),
\* its requests and the server; the other player's moves reach the server
\* from another tab.
Viewer == "white"

\* What the two players choose from.
ClientBook ==
  { <<12, 4, 2>>, <<11, 3, 2>>, <<51, 3, 5>> }

\* A request or response in flight: closure is the game the update callback
\* was created with, payload the game a body carries.
msg(kind, closure, payload) ==
  [kind |-> kind, closure |-> closure, payload |-> payload]

InitClient ==
  /\ game = newGame(GameId)
  /\ book = 1
  /\ stored = newGame(GameId)
  /\ calls = 0
  /\ heap = heapOfMakeGame(GameId)
  /\ held = << [ref |-> 2, value |-> newGame(GameId)] >>
  /\ requests = [c \in 1..MaxClients |-> idle]
  /\ everMoved = {}
  /\ ui = noUi
  /\ net = {}

\* update() is called, by the effect or by the interval, and fetches: the
\* callback is the one of the latest render, made with that render's game.
Update ==
  /\ calls < MaxSent
  /\ Cardinality({m \in net : m.kind # "POST (other tab)"}) < MaxInFlight
  /\ net' = net \cup {msg("GET", ui.game, <<>>)}
  /\ calls' = calls + 1
  /\ UNCHANGED <<game, book, stored, heap, held, requests, everMoved, ui>>

\* api.get('/games/:game') answers with the stored game.
ServeGet(m) ==
  /\ m.kind = "GET"
  /\ net' = (net \ {m}) \cup {msg("GET.json", m.closure, <<stored>>)}
  /\ UNCHANGED <<game, book, stored, calls, heap, held, requests, everMoved, ui>>

\* The rest of update() after its awaits:
\* if (!game || newGame.moveCount > game.moveCount) setGame(newGame).
UpdateResolved(m) ==
  /\ m.kind = "GET.json"
  /\ net' = net \ {m}
  /\ ui' = IF \/ m.closure = <<>>
              \/ m.payload[1].moveCount > m.closure[1].moveCount
           THEN [ui EXCEPT !.game = m.payload]
           ELSE ui
  /\ UNCHANGED <<game, book, stored, calls, heap, held, requests, everMoved>>

\* onClick of a Piece that is not disabled: setActivePiece(piece).
Click(i) ==
  /\ ui.game # <<>>
  /\ i \in 1..Len(ui.game[1].pieces)
  /\ LET piece == ui.game[1].pieces[i]
     IN  /\ ~(Viewer # piece.color \/ turn(ui.game[1]) # Viewer)
         /\ \E t \in ClientBook : t[1] = piece.id
         /\ ui.activePiece # <<piece>>
         /\ ui' = [ui EXCEPT !.activePiece = <<piece>>]
  /\ UNCHANGED <<game, book, stored, calls, heap, held, requests, everMoved, net>>

\* onClick of a Slot of PieceMover, shown for activePiece on the game of the
\* render: onUpdate({...piece, coord}) posts updatePiece(game, newPiece) and
\* deselects.
OnUpdate(d) ==
  /\ ui.game # <<>>
  /\ ui.activePiece # <<>>
  /\ calls < MaxSent
  /\ Cardinality({m \in net : m.kind # "POST (other tab)"}) < MaxInFlight
  /\ LET piece == ui.activePiece[1]
         newPiece == [piece EXCEPT !.coord = d]
     IN  /\ <<piece.id, d[1], d[2]>> \in ClientBook
         /\ d \in getValidMoves(ui.game[1], piece, FALSE)
         /\ ~updatePieceThrows(ui.game[1], newPiece)
         /\ net' = net \cup
              {msg("POST", <<>>, <<updatePiece(ui.game[1], newPiece, 1)>>)}
         /\ ui' = [ui EXCEPT !.activePiece = <<>>,
                             !.issued = <<[game |-> ui.game[1], piece |-> newPiece]>>]
  /\ calls' = calls + 1
  /\ UNCHANGED <<game, book, stored, heap, held, requests, everMoved>>

\* api.post('/games/:id') on a request of either tab: the answer carries the
\* game when it was stored and no body otherwise; the answer to the other
\* tab leaves this model.
ServePost(m) ==
  /\ m.kind \in {"POST", "POST (other tab)"}
  /\ \E body \in {toJSON(m.payload[1])} :
     \E r \in {postGame(<<stored>>, GameId, <<body>>, FALSE)} :
       /\ stored' = r.record[1]
       /\ net' = IF r.answer = "json" /\ m.kind = "POST"
                 THEN (net \ {m}) \cup {msg("POST.json", <<>>, r.record)}
                 ELSE net \ {m}
  /\ UNCHANGED <<game, book, calls, heap, held, requests, everMoved, ui>>

\* The rest of updateGame after its awaits: setGame(newGame).
UpdateGameResolved(m) ==
  /\ m.kind = "POST.json"
  /\ net' = net \ {m}
  /\ ui' = [ui EXCEPT !.game = m.payload]
  /\ UNCHANGED <<game, book, stored, calls, heap, held, requests, everMoved>>

\* The other player's tab, which shows the stored game, posts a move when it
\* is their turn.
Opponent(i, d) ==
  /\ i \in 1..Len(stored.pieces)
  /\ \A m \in net : m.kind # "POST (other tab)"
  /\ LET piece == stored.pieces[i]
     IN  /\ piece.color # Viewer
         /\ turn(stored) = piece.color
         /\ <<piece.id, d[1], d[2]>> \in ClientBook
         /\ net' = net \cup
              {msg("POST (other tab)", <<>>, <<moveTo(stored, piece, d)>>)}
  /\ UNCHANGED <<game, book, stored, calls, heap, held, requests, everMoved, ui>>

NextClient ==
  \/ Update
  \/ \E m \in net : ServeGet(m)
  \/ \E m \in net : UpdateResolved(m)
  \/ \E i \in 1..32 : Click(i)
  \/ \E d \in Squares : OnUpdate(d)
  \/ \E m \in net : ServePost(m)
  \/ \E m \in net : UpdateGameResolved(m)
  \/ \E i \in 1..32 : \E d \in Squares : Opponent(i, d)

SpecClient == InitClient /\ [][NextClient]_vars

\* ------------------------------------------------------------ properties
pieceAt(g, x, y) == { p \in Pieces(g) : p.coord = <<x, y>> }

\* C1. Self-check filtering: no destination getValidMoves returns for any
\* piece (of either color, normal move, capture, castling or en passant)
\* leads, by updatePiece, to a state where that piece's own king is in check.
C1_SelfCheckFiltered ==
  \A p \in Pieces(game) : \A d \in getValidMoves(game, p, FALSE) :
    ~isInCheck(moveTo(game, p, d), p.color)

\* The filter has acted: a pawn whose forward square is empty and on the
\* board (the code calls makeAttack on it) is not offered that square.
C1_Witness ==
  \E p \in Pieces(game) :
    LET fwd == <<p.coord[1], p.coord[2] + getDirection(game, p)>>
    IN  /\ p.type = "pawn"
        /\ fwd \in Squares
        /\ pieceAt(game, fwd[1], fwd[2]) = {}
        /\ fwd \notin getValidMoves(game, p, FALSE)


\* ---- how the current state was made (read off game and game.prevState)
lastPiece(g) == g.pieces[Len(g.pieces)]

\* The last half-move was an en-passant capture: a pawn landed on a square
\* that was empty, and a piece is gone.
wasEnPassant(g) ==
  /\ g.prevState # <<>>
  /\ lastPiece(g).type = "pawn"
  /\ Len(g.pieces) = Len(g.prevState[1].pieces) - 1
  /\ pieceAt(g.prevState[1], lastPiece(g).coord[1], lastPiece(g).coord[2]) = {}

\* The last half-move was a castling: the king went two files sideways.
wasCastling(g) ==
  /\ g.prevState # <<>>
  /\ \E k \in Pieces(g) : \E k0 \in Pieces(g.prevState[1]) :
       /\ k.type = "king" /\ k0.id = k.id
       /\ abs(k.coord[1] - k0.coord[1]) = 2

noSharedSquare(g) ==
  \A i, j \in 1..Len(g.pieces) :
    i # j => g.pieces[i].coord # g.pieces[j].coord

\* C2. Single occupancy: in every state made from makeGame() by updatePiece
\* calls for destinations getValidMoves returned (for a piece of either
\* color), and in every state one more such call makes, no two pieces stand
\* on one square.
C2_SingleOccupancy ==
  /\ noSharedSquare(game)
  /\ \A p \in Pieces(game) : \A d \in getValidMoves(game, p, FALSE) :
       noSharedSquare(moveTo(game, p, d))

\* An en-passant capture is offered, and the state the en-passant branch
\* (which removes by id only) makes for it has no shared square.
C2_Witness ==
  \E p \in Pieces(game) : \E d \in getValidMoves(game, p, FALSE) :
    /\ wasEnPassant(moveTo(game, p, d))
    /\ noSharedSquare(moveTo(game, p, d))

\* C6. Replay round trip: the state updatePiece makes for any piece and any
\* destination getValidMoves returned is accepted by isValidMove.
C6_ReplayRoundTrip ==
  \A p \in Pieces(game) : \A d \in getValidMoves(game, p, FALSE) :
    isValidMove(<<game>>, toJSON(moveTo(game, p, d))) = "true"

\* A castling destination is offered: its state has two moved pieces and is
\* accepted through the king.
C6_Witness ==
  \E p \in Pieces(game) : \E d \in getValidMoves(game, p, FALSE) :
    /\ p.type = "king"
    /\ abs(d[1] - p.coord[1]) = 2
    /\ Len(movedPieces(game, moveTo(game, p, d))) = 2
    /\ wasCastling(moveTo(game, p, d))
    /\ isValidMove(<<game>>, toJSON(moveTo(game, p, d))) = "true"

\* E (an enemy pawn) has just double-stepped over (x, y), and the pawn P
\* stands beside it: the situation of an en-passant capture on (x, y).
enPassantSituation(g, P, E, x, y) ==
  LET dir == IF P.color = "white" THEN 1 ELSE -1
  IN  /\ g.prevState # <<>>
      /\ P.type = "pawn" /\ E.type = "pawn" /\ E.color # P.color
      /\ E.coord = <<x, y - dir>>
      /\ \E E0 \in Pieces(g.prevState[1]) :
           E0.id = E.id /\ E0.type = "pawn" /\ E0.coord = <<x, y + dir>>
      /\ P.coord[2] = y - dir
      /\ abs(P.coord[1] - x) = 1

\* C9. En passant: in that situation getValidMoves(game, P) contains (x, y)
\* unless the capture leaves P's king in check, and updatePiece for P moved
\* to (x, y) puts P there with its and the game's moveCount one higher,
\* removes E and changes no other piece.
C9_EnPassant ==
  \A P, E \in Pieces(game) : \A d \in Squares :
    enPassantSituation(game, P, E, d[1], d[2]) =>
      LET r == moveTo(game, P, d)
          P1 == [P EXCEPT !.coord = d, !.moveCount = P.moveCount + 1]
      IN  /\ d \in getValidMoves(game, P, FALSE) \/ isInCheck(r, P.color)
          /\ P1 \in Pieces(r)
          /\ r.moveCount = game.moveCount + 1
          /\ \A q \in Pieces(r) : q.id # E.id
          /\ Pieces(r) \ {P1} = Pieces(game) \ {P, E}
          /\ Len(r.pieces) = Len(game.pieces) - 1

\* A black pawn has captured en passant: it stands on a square that was
\* empty, and the white pawn that stood behind that square is gone.
C9_Witness ==
  /\ wasEnPassant(game)
  /\ lastPiece(game).color = "black"
  /\ \E E \in Pieces(game.prevState[1]) :
       /\ E.type = "pawn" /\ E.color = "white"
       /\ E.coord = <<lastPiece(game).coord[1], lastPiece(game).coord[2] + 1>>
       /\ \A q \in Pieces(game) : q.id # E.id

\* The rooks of the king's color standing on the side the jump by dx goes to.
rooksToward(g, king, dx) ==
  { r \in Pieces(g) :
      /\ r.type = "rook" /\ r.color = king.color
      /\ (IF r.coord[1] < king.coord[1] THEN -2 ELSE 2) = dx }

\* C10. Castling: getValidMoves(game, king) contains the jump two files to
\* one side iff canCastle holds for a rook of that color on that side and
\* the castled position does not leave the king in check; updatePiece then
\* puts the king on the destination and that rook on the square the king
\* passed over, raises both moveCounts by one and changes no other piece.
C10_Castling ==
  \A k \in Pieces(game) : \A dx \in {-2, 2} :
    k.type = "king" =>
      LET d == <<k.coord[1] + dx, k.coord[2]>>
          can == { r \in rooksToward(game, k, dx) : canCastle(game, k, r) }
      IN  /\ \A r \in rooksToward(game, k, dx) :
               canCastle(game, k, r) <=>
                 /\ k.moveCount = 0 /\ r.moveCount = 0
                 /\ \A q \in Pieces(game) :
                      ~ /\ q.coord[2] = k.coord[2]
                        /\ q.coord[1] > min(k.coord[1], r.coord[1])
                        /\ q.coord[1] < max(k.coord[1], r.coord[1])
                 /\ ~isInCheck(game, k.color)
          /\ d \in getValidMoves(game, k, FALSE) <=>
               (can # {} /\ ~isInCheck(moveTo(game, k, d), k.color))
          /\ d \in getValidMoves(game, k, FALSE) =>
               \E rook \in can :
                 LET r == moveTo(game, k, d)
                     k1 == [k EXCEPT !.coord = d, !.moveCount = k.moveCount + 1]
                     rook1 == [rook EXCEPT
                                 !.coord = <<k.coord[1] + sign(dx), k.coord[2]>>,
                                 !.moveCount = rook.moveCount + 1]
                 IN  /\ k1 \in Pieces(r) /\ rook1 \in Pieces(r)
                     /\ Pieces(r) \ {k1, rook1} = Pieces(game) \ {k, rook}
                     /\ Len(r.pieces) = Len(game.pieces)
                     /\ Cardinality(can) = 1

\* Castling is offered although the king could not step onto the square it
\* passes over (that square is empty and attacked).
C10_Witness ==
  \E k \in Pieces(game) : \E dx \in {-2, 2} :
    LET d == <<k.coord[1] + dx, k.coord[2]>>
        over == <<k.coord[1] + sign(dx), k.coord[2]>>
    IN  /\ k.type = "king"
        /\ d \in getValidMoves(game, k, FALSE)
        /\ pieceAt(game, over[1], over[2]) = {}
        /\ isInCheck(moveTo(game, k, over), k.color)

\* ---- the validator and the server
\* C3. Turn order: every transition the server accepts is made by the side
\* to move in the state before it (white when its moveCount is even).
C3_TurnOrder ==
  stored.prevState # <<>> =>
    \A p \in Pieces(stored.prevState[1]) :
      p.id = lastPiece(stored).id => p.color = turn(stored.prevState[1])

\* C4. King invariant: every state reached through accepted transitions
\* has exactly one king of each color.
C4_OneKingEach ==
  \A c \in {"white", "black"} :
    Cardinality({ p \in Pieces(stored) : p.type = "king" /\ p.color = c }) = 1

\* The states the engine's legal-move interface makes from g: a piece moved
\* to a destination getValidMoves returned, or a promotable pawn promoted.
engineProduced(g) ==
  { moveTo(g, p, d) :
      <<p, d>> \in { x \in Pieces(g) \X Squares :
                       x[2] \in getValidMoves(g, x[1], FALSE) } }
  \cup
  { updatePiece(g, [p EXCEPT !.type = t], 1) :
      <<p, t>> \in { x \in Pieces(g) \X {"queen", "knight", "bishop", "rook"} :
                       canPromote(g, x[1]) } }

\* C5. Validator soundness: a body isValidMove accepts against the stored
\* state is a state the engine's legal-move interface makes from it.
C5_ValidatorSound ==
  \A body \in Submissions(stored,
                           { p \in Pieces(stored) : p.id \in ServerMovers },
                           Kinds, {"none", "moveCount"}) :
    isValidMove(<<stored>>, body) = "true" =>
      asState(body) \in engineProduced(stored)

\* The pieces of the side to move (the movers of the bodies examined against
\* the states of a game).
sideToMove(g) == { p \in Pieces(g) : p.color = turn(g) }

\* C7. Count of changed pieces: isValidMove answers false when the pieces
\* of the new state not found with their id and type on their square in the
\* old one number 0 or more than 2, or 2 without a king; when they are a
\* king and another piece the answer is that of replaying the king's move,
\* and it is true only if the other piece is the rook castling relocates.
C7_CountOfMoved ==
  \A body \in Submissions(game, sideToMove(game), {"same"}, CountEdits) :
    LET st == asState(body)
        m == movedPieces(game, st)
        kings == SelectSeq(m, LAMBDA x : x.type = "king")
        out == isValidMove(<<game>>, body)
    IN  /\ (Len(m) = 0 \/ Len(m) > 2) => out = "false"
        /\ (Len(m) = 2 /\ kings = <<>>) => out = "false"
        /\ (Len(m) = 2 /\ kings # <<>>) =>
             /\ out = isValid(game, st, kings[1])
             /\ out = "true" =>
                  \E other \in Pieces(st) : \E rook, k0 \in Pieces(game) :
                    /\ other.id # kings[1].id
                    /\ m \in {<<kings[1], other>>, <<other, kings[1]>>}
                    /\ rook.id = other.id /\ rook.type = "rook"
                    /\ rook.moveCount = 0 /\ rook.color = kings[1].color
                    /\ k0.id = kings[1].id
                    /\ abs(kings[1].coord[1] - k0.coord[1]) = 2
                    /\ other.coord =
                         <<(kings[1].coord[1] + k0.coord[1]) \div 2, k0.coord[2]>>

\* A body in which a king and a piece that is no castling rook have moved
\* is rejected, and one in which a king has castled is accepted.
C7_Witness ==
  /\ \E body \in Submissions(game, sideToMove(game), {"same"}, {"first"}) :
       LET m == movedPieces(game, asState(body))
       IN  /\ Len(m) = 2
           /\ \E i \in 1..2 : m[i].type = "king"
           /\ isValidMove(<<game>>, body) = "false"
  /\ \E body \in Submissions(game, sideToMove(game), {"same"}, {"none"}) :
       /\ Len(movedPieces(game, asState(body))) = 2
       /\ isValidMove(<<game>>, body) = "true"

\* A submitted state is malformed: a piece with an unrecognized type, a
\* coord that is no 2-element array, a color other than black and white or
\* no id; pieces that are no array; or no state at all.
malformed(body) ==
  \/ ~body.isObject
  \/ ~body.piecesIsArray
  \/ \E i \in 1..Len(body.pieces) :
       LET x == body.pieces[i]
       IN  \/ x.type \notin PIECE_NAMES
           \/ ~x.coordIsArray
           \/ Len(x.coord) # 2
           \/ x.color \notin {"black", "white"}
           \/ ~x.hasId

\* C8. Structural validation: isValidMove answers false (it neither raises
\* an error nor answers true) when the old state is missing or the new one
\* is malformed.
C8_MalformedRejected ==
  /\ isValidMove(<<>>, toJSON(game)) = "false"
  /\ \A body \in Submissions(game, sideToMove(game), {"same"}, ShapeEdits) :
       malformed(body) => isValidMove(<<game>>, body) = "false"

\* The two ways the answer differs from false.
C8_NeverTrue ==
  \A body \in Submissions(game, sideToMove(game), {"same"}, ShapeEdits) :
    malformed(body) => isValidMove(<<game>>, body) # "true"

C8_NeverThrows ==
  \A body \in Submissions(game, sideToMove(game), {"same"}, ShapeEdits) :
    malformed(body) => isValidMove(<<game>>, body) # "throws"

\* C11. Move counting: updatePiece(game, piece, m), for a destination
\* getValidMoves returned, gives a state whose moveCount is game.moveCount
\* + m, where the moved piece has piece.moveCount + m, the castling rook
\* rook.moveCount + m and every other surviving piece the moveCount it had;
\* and the moveCount of a game made by default calls is the number of calls.
C11_MoveCounting ==
  /\ game.moveCount = calls
  /\ \A p \in Pieces(game) : \A d \in getValidMoves(game, p, FALSE) :
       \A m \in 1..MaxIncrement :
         LET r == updatePiece(game, [p EXCEPT !.coord = d], m)
             castled == p.type = "king" /\ abs(d[1] - p.coord[1]) = 2
         IN  /\ r.moveCount = game.moveCount + m
             /\ \A q \in Pieces(r) : \E q0 \in Pieces(game) :
                  /\ q0.id = q.id
                  /\ q.moveCount =
                       IF q.id = p.id \/ (castled /\ q.type = "rook" /\ q.coord # q0.coord)
                       THEN q0.moveCount + m
                       ELSE q0.moveCount

\* A castling by two is offered after calls have been made: king and rook
\* both go up by two, the game too.
C11_Witness ==
  /\ calls > 0
  /\ \E p \in Pieces(game) : \E d \in getValidMoves(game, p, FALSE) :
       LET r == updatePiece(game, [p EXCEPT !.coord = d], 2)
       IN  /\ p.type = "king" /\ abs(d[1] - p.coord[1]) = 2
           /\ r.moveCount = calls + 2
           /\ \E q \in Pieces(r) : q.type = "rook" /\ q.moveCount = 2

\* A back-rank mate, black to move: the black king behind its own pawns, a
\* white rook on its rank.
BackRankMate ==
  [ pieces |-> << [id |-> 53, type |-> "pawn", moveCount |-> 0,
                   color |-> "black", coord |-> <<5, 6>>],
                  [id |-> 54, type |-> "pawn", moveCount |-> 0,
                   color |-> "black", coord |-> <<6, 6>>],
                  [id |-> 55, type |-> "pawn", moveCount |-> 0,
                   color |-> "black", coord |-> <<7, 6>>],
                  [id |-> 3, type |-> "king", moveCount |-> 4,
                   color |-> "white", coord |-> <<6, 0>>],
                  [id |-> 59, type |-> "king", moveCount |-> 3,
                   color |-> "black", coord |-> <<6, 7>>],
                  [id |-> 0, type |-> "rook", moveCount |-> 6,
                   color |-> "white", coord |-> <<0, 7>>] >>,
    moveCount |-> 41,
    prevState |-> <<>>,
    id |-> GameId ]

\* Some piece of the color has a move after which the king of that color
\* is not in check.
hasSafeMove(g, color) ==
  \E p \in Pieces(g) : \E d \in Squares :
    /\ p.color = color
    /\ d \in getValidMoves(g, p, FALSE)
    /\ ~isInCheck(moveTo(g, p, d), color)

\* C12. Game over: canMove(game, color) iff some piece of that color has a
\* destination in getValidMoves; the game is over exactly when the side to
\* move cannot move, a checkmate when that side is in check and a stalemate
\* otherwise; in a back-rank mate the mated side cannot move and is in check.
C12_GameOver ==
  /\ \A c \in {"white", "black"} :
       /\ canMove(game, c) <=> hasSafeMove(game, c)
       /\ canMove(game, c) <=>
            \E p \in Pieces(game) :
              p.color = c /\ getValidMoves(game, p, FALSE) # {}
  /\ gameOver(game) <=> ~hasSafeMove(game, turn(game))
  /\ outcome(game) = "Checkmate: " <=>
       (~hasSafeMove(game, turn(game)) /\ isInCheck(game, turn(game)))
  /\ outcome(game) = "Stalemate: " <=>
       (~hasSafeMove(game, turn(game)) /\ ~isInCheck(game, turn(game)))
  /\ ~canMove(BackRankMate, "black") /\ isInCheck(BackRankMate, "black")
  /\ outcome(BackRankMate) = "Checkmate: "

\* White is mated: it is its turn, it is in check and it cannot move, while
\* black can.
C12_Witness ==
  /\ turn(game) = "white"
  /\ gameOver(game)
  /\ isInCheck(game, "white")
  /\ canMove(game, "black")

\* What a call of updatePiece gives its caller: an exception and no state,
\* or the new state.
updatePieceOutcome(g, piece, moveCount) ==
  IF updatePieceThrows(g, piece)
  THEN [threw |-> TRUE, state |-> <<>>]
  ELSE [threw |-> FALSE, state |-> <<updatePiece(g, piece, moveCount)>>]

\* Pieces whose id matches no piece of g: ids never dealt (64) and ids of
\* pieces that have been captured, of every type and color.
unknownPieces(g) ==
  { [id |-> i, type |-> t, moveCount |-> n, color |-> c, coord |-> d] :
      i \in (0..64) \ { q.id : q \in Pieces(g) },
      t \in PIECE_NAMES,
      n \in {0, 1},
      c \in {"white", "black"},
      d \in { <<0, 0>>, <<4, 4>> } }

\* C14. Unknown piece id: updatePiece called with a piece whose id matches
\* no piece of the game raises an error for every piece type and returns no
\* state; a piece of the game that is offered a move raises nothing.
C14_UnknownId ==
  /\ \A piece \in unknownPieces(game) : \A m \in 1..MaxIncrement :
       /\ oldPieceOf(game, piece) = <<>>
       /\ updatePieceThrows(game, piece)
       /\ updatePieceOutcome(game, piece, m) = [threw |-> TRUE, state |-> <<>>]
  /\ \A p \in Pieces(game) : \A d \in getValidMoves(game, p, FALSE) :
       ~updatePieceOutcome(game, [p EXCEPT !.coord = d], 1).threw

\* A piece has been captured, and updatePiece is called with it: a pawn
\* with the id of the captured pawn raises.
C14_Witness ==
  /\ Len(game.pieces) < 32
  /\ \E piece \in unknownPieces(game) :
       /\ piece.id < 64
       /\ piece.type = "pawn"
       /\ updatePieceOutcome(game, piece, 1).threw

\* C13. Immutability: every state a caller was given reads, after any later
\* updatePiece and getValidMoves calls on it or on other states, exactly as
\* it read when it was given (pieces list, moveCount and prevState), and
\* the state updatePiece builds on objects is the state it computes.
C13_Immutability ==
  /\ \A k \in 1..Len(held) : deref(heap, held[k].ref) = held[k].value
  /\ game = held[Len(held)].value

\* Two states were built from the same earlier state, whose pieces array
\* their prevState objects share, and a query has run.
C13_Witness ==
  /\ Len(held) >= 3
  /\ temporaries(heap) # {}
  /\ \E k \in 1..Len(held) : \E a, b \in 2..Len(held) :
       /\ a # b
       /\ heap[heap[held[a].ref].prevState].pieces = heap[held[k].ref].pieces
       /\ heap[heap[held[b].ref].prevState].pieces = heap[held[k].ref].pieces

\* The requests put to the handler: the bodies of the server model, with
\* or without a structural edit, and a body without a game; for the id of
\* the stored game and for another id.
requestsOn(g) ==
  { [id |-> i, submitted |-> b, setFails |-> f] :
      i \in {GameId, OtherId},
      b \in { <<body>> : body \in
                Submissions(g, { p \in Pieces(g) : p.id \in ServerMovers },
                            {"same"}, Edits \cup ShapeEdits) } \cup { <<>> },
      f \in BOOLEAN }

\* The three conditions of acceptance.
acceptable(record, req) ==
  /\ record # <<>>
  /\ req.submitted # <<>>
  /\ req.submitted[1].isObject
  /\ req.submitted[1].id = req.id
  /\ isValidMove(record, req.submitted[1]) = "true"

\* C15. Server acceptance: the handler replaces the stored game only when a
\* game is stored under the id, the submitted id is that id and isValidMove
\* is true; in every other case it answers 404 or 400 and leaves the stored
\* game as it was.
C15_ServerAcceptance ==
  \A req \in requestsOn(stored) :
    \A record \in { IF req.id = GameId THEN <<stored>> ELSE <<>> } :
      LET r == postGame(record, req.id, req.submitted, req.setFails)
      IN  /\ r.record # record => acceptable(record, req)
          /\ ~acceptable(record, req) =>
                r.answer \in {"404", "400"} /\ r.record = record

\* The part of it about the record: it is replaced only when the three
\* conditions hold, and is otherwise left as it was.
C15_RecordKept ==
  \A req \in requestsOn(stored) :
    \A record \in { IF req.id = GameId THEN <<stored>> ELSE <<>> } :
      LET r == postGame(record, req.id, req.submitted, req.setFails)
      IN  /\ r.record # record => acceptable(record, req)
          /\ ~acceptable(record, req) => r.record = record

\* A back rank, from file 0 to file 7.
backRank ==
  <<"rook", "knight", "bishop", "king", "queen", "bishop", "knight", "rook">>

\* C16. Initial layout: makeGame() has moveCount 0, no prevState and 32
\* pieces, 16 white on ranks 0-1 and 16 black on ranks 6-7; each back rank
\* reads rook, knight, bishop, king, queen, bishop, knight, rook from file 0
\* to 7, ranks 1 and 6 hold pawns, every piece has moveCount 0 and the id
\* file + 8 * rank; a game no updatePiece call has acted on is that state.
C16_InitialLayout ==
  LET g == makeGame
      ps == Pieces(g)
      on(c, ranks) == { p \in ps : p.color = c /\ p.coord[2] \in ranks }
  IN  /\ g.moveCount = 0
      /\ g.prevState = <<>>
      /\ Len(g.pieces) = 32
      /\ Cardinality(ps) = 32
      /\ Cardinality(on("white", {0, 1})) = 16
      /\ Cardinality(on("black", {6, 7})) = 16
      /\ \A f \in 0..7 :
           /\ \A r \in {0, 7} :
                \E p \in ps : p.coord = <<f, r>> /\ p.type = backRank[f + 1]
           /\ \A r \in {1, 6} :
                \E p \in ps : p.coord = <<f, r>> /\ p.type = "pawn"
      /\ \A p \in ps :
           /\ p.moveCount = 0
           /\ p.id = p.coord[1] + 8 * p.coord[2]
      /\ \A p, q \in ps : p.id = q.id => p = q
      /\ calls = 0 =>
           /\ game.pieces = g.pieces
           /\ game.moveCount = 0
           /\ game.prevState = <<>>

\* The game as it was made: the white king stands on file 3 of rank 0 and
\* the black queen on file 4 of rank 7.
C16_Witness ==
  /\ calls = 0
  /\ game = newGame(GameId)
  /\ \E p \in pieceAt(game, 3, 0) : p.type = "king" /\ p.color = "white"
  /\ \E p \in pieceAt(game, 4, 7) : p.type = "queen" /\ p.color = "black"

\* C17. Concurrent submissions: every state the server has written was a
\* valid successor (isValidMove) of the record it replaced, and two
\* submissions validated against the same record are never both written.
C17_SerializedWrites ==
  /\ \A c \in 1..MaxClients :
       requests[c].pc = "json" =>
         isValidMove(requests[c].before, requests[c].body[1]) = "true"
  /\ \A a, b \in 1..MaxClients :
       (a # b /\ requests[a].pc = "json" /\ requests[b].pc = "json") =>
         requests[a].result # requests[b].result

\* Its two parts.
C17_ValidSuccessor ==
  \A c \in 1..MaxClients :
    requests[c].pc = "json" =>
      isValidMove(requests[c].before, requests[c].body[1]) = "true"

C17_NotBothWritten ==
  \A a, b \in 1..MaxClients :
    (a # b /\ requests[a].pc = "json" /\ requests[b].pc = "json") =>
      requests[a].result # requests[b].result

\* E (an enemy pawn) double-stepped over (x, y) earlier, another half-move
\* has been applied since (E stood where it stands one half-move ago), and
\* the pawn P stands beside it.
expiredEnPassant(g, P, E, x, y) ==
  LET dir == IF P.color = "white" THEN 1 ELSE -1
  IN  /\ g.prevState # <<>>
      /\ P.type = "pawn" /\ E.type = "pawn" /\ E.color # P.color
      /\ E.coord = <<x, y - dir>>
      /\ E.moveCount = 1
      /\ E.coord[2] = (IF E.color = "white" THEN 3 ELSE 4)
      /\ E \in Pieces(g.prevState[1])
      /\ P.coord[2] = y - dir
      /\ abs(P.coord[1] - x) = 1

\* C19. En passant expires after one ply: getEnPassantPiece returns a pawn
\* only if that pawn made the last half-move, a double-step; once another
\* half-move has been applied it returns nothing for that pawn and the
\* square it passed is not among the capturer's moves; updatePiece removes a
\* piece from a square other than the destination only in the situation of
\* an en-passant capture; with no prevState en passant is never available.
C19_EnPassantExpires ==
  /\ \A P \in Pieces(game) : \A d \in Squares :
       LET E == getEnPassantPiece(game, P, d[1], d[2])
       IN  /\ E # <<>> =>
                /\ game.prevState # <<>>
                /\ lastPiece(game) = E[1]
                /\ E[1].moveCount = 1
                /\ enPassantSituation(game, P, E[1], d[1], d[2]) \/
                     abs(P.coord[1] - d[1]) # 1 \/
                     P.coord[2] # E[1].coord[2]
           /\ \A X \in Pieces(game) :
                expiredEnPassant(game, P, X, d[1], d[2]) =>
                  /\ E = <<>>
                  /\ pieceAt(game, d[1], d[2]) = {} =>
                       d \notin getValidMoves(game, P, FALSE)
  /\ \A p \in Pieces(game) : \A d \in getValidMoves(game, p, FALSE) :
       \A q \in Pieces(game) :
         (q.id # p.id /\ \A t \in Pieces(moveTo(game, p, d)) : t.id # q.id) =>
           \/ q.coord = d
           \/ enPassantSituation(game, p, q, d[1], d[2])
           \/ p.type = "king" /\ abs(d[1] - p.coord[1]) = 2
  /\ game.prevState = <<>> =>
       \A P \in Pieces(game) : \A d \in Squares :
         getEnPassantPiece(game, P, d[1], d[2]) = <<>>

\* A black pawn double-stepped beside a white pawn, another half-move was
\* applied, and the square it passed, still empty, is not offered to the
\* white pawn.
C19_Witness ==
  \E P, E \in Pieces(game) : \E d \in Squares :
    /\ P.color = "white"
    /\ expiredEnPassant(game, P, E, d[1], d[2])
    /\ pieceAt(game, d[1], d[2]) = {}
    /\ getEnPassantPiece(game, P, d[1], d[2]) = <<>>
    /\ d \notin getValidMoves(game, P, FALSE)

\* C18. Promotion is accepted: for a pawn on its final rank, the state the
\* client builds by updatePiece(game, {...pawn, type: T}), T one of queen,
\* knight, bishop, rook, is accepted by isValidMove(game, r).
C18_PromotionAccepted ==
  \A p \in Pieces(game) : \A T \in promoteTypes(game, p) :
    isValidMove(<<game>>,
                toJSON(updatePiece(game, [p EXCEPT !.type = T], 1))) = "true"

\* C20. Castling rights are lost for good: a castling destination is
\* offered to a king only if updatePiece has never displaced that king and
\* a rook of its color stands on that side which it has never displaced
\* and which was dealt as a rook; canCastle is false for every king or rook
\* that has moved, wherever they stand now, and for every promoted rook.
C20_CastlingRightsLost ==
  \A k \in Pieces(game) :
    k.type = "king" =>
      /\ \A dx \in {-2, 2} :
           <<k.coord[1] + dx, k.coord[2]>> \in getValidMoves(game, k, FALSE) =>
             /\ k.id \notin everMoved
             /\ \E r \in rooksToward(game, k, dx) :
                  r.id \notin everMoved /\ board[r.id + 1] = "R"
      /\ \A r \in Pieces(game) :
           (k.id \in everMoved \/ r.id \in everMoved \/ board[r.id + 1] # "R")
             => ~canCastle(game, k, r)

\* The white king has moved and is back on the square it started from, the
\* rook of file 0 has not moved, the squares between them are empty and
\* the king is not in check: the jump toward that rook is not offered.
C20_Witness ==
  \E k, r \in Pieces(game) :
    /\ k.id = 3 /\ k.coord = <<3, 0>> /\ k.id \in everMoved
    /\ r.id = 0 /\ r.coord = <<0, 0>> /\ r.id \notin everMoved
    /\ pieceAt(game, 1, 0) = {} /\ pieceAt(game, 2, 0) = {}
    /\ ~isInCheck(game, "white")
    /\ <<1, 0>> \notin getValidMoves(game, k, FALSE)

\* A pawn has been promoted to a rook.
C20_PromotedRook ==
  \E r \in Pieces(game) : r.type = "rook" /\ board[r.id + 1] = "P"

\* The number of states nested in g through prevState.
RECURSIVE historyDepth(_)
historyDepth(g) ==
  IF g.prevState = <<>> THEN 0 ELSE 1 + historyDepth(g.prevState[1])

\* C21. One level of history: for every s = updatePiece(g, piece, m),
\* s.prevState has the pieces and the moveCount of g and no prevState of its
\* own; the nesting depth of every reachable state is at most one, and with
\* default increments s.prevState.moveCount = s.moveCount - 1.
C21_OneLevelOfHistory ==
  /\ historyDepth(game) <= 1
  /\ game.prevState # <<>> =>
       /\ game.prevState[1].prevState = <<>>
       /\ game.prevState[1].moveCount = game.moveCount - 1
  /\ \A p \in Pieces(game) : \A d \in getValidMoves(game, p, FALSE) :
       \A m \in 1..MaxIncrement :
         LET s == updatePiece(game, [p EXCEPT !.coord = d], m)
         IN  /\ s.prevState # <<>>
             /\ s.prevState[1].pieces = game.pieces
             /\ s.prevState[1].moveCount = game.moveCount
             /\ s.prevState[1].prevState = <<>>
             /\ s.prevState[1].id = game.id
             /\ historyDepth(s) = 1

\* A state made from a state that had a prevState itself: its own prevState
\* has none.
C21_Witness ==
  /\ calls >= Len(Openings[book]) + 2
  /\ game.prevState # <<>>
  /\ game.prevState[1].prevState = <<>>
  /\ game.prevState[1].moveCount = calls - 1
  /\ historyDepth(game) = 1

ids(g) == { q.id : q \in Pieces(g) }

\* The piece createPieces dealt with that id.
dealt(id) == CHOOSE o \in Pieces(makeGame) : o.id = id

\* The frame of one updatePiece call that gave r from g for the piece p:
\* no new id, at most one id gone, ids distinct, the mover keeps id, type
\* and color, and every piece other than the mover and the castling rook is
\* the record it was.
framed(g, p, r) ==
  LET castled == \E t \in Pieces(r) :
                   t.id = p.id /\ t.type = "king" /\
                   abs(t.coord[1] - p.coord[1]) = 2
  IN  /\ ids(r) \subseteq ids(g)
      /\ Cardinality(ids(g) \ ids(r)) <= 1
      /\ Cardinality(ids(r)) = Len(r.pieces)
      /\ \A t \in Pieces(r) :
           IF t.id = p.id THEN t.color = p.color
           ELSE IF castled /\ t.type = "rook" /\ t.color = p.color /\
                   t \notin Pieces(g)
           THEN \E t0 \in Pieces(g) :
                  /\ t0.id = t.id /\ t0.type = t.type /\ t0.color = t.color
                  /\ \A u \in Pieces(r) :
                       (u.type = "rook" /\ u.id # t.id) => u \in Pieces(g)
           ELSE t \in Pieces(g)

\* C22. Piece identity and frame: ids are pairwise distinct in every
\* reachable state; the color of an id is the one it was dealt with and its
\* type changes only by promotion of a pawn; an updatePiece call for a
\* getValidMoves destination introduces no id, removes at most one, keeps
\* the mover's type, and changes no piece other than the mover, the
\* captured piece and the castling rook; a promotion changes the type of
\* the pawn only.
C22_IdentityAndFrame ==
  /\ Cardinality(ids(game)) = Len(game.pieces)
  /\ ids(game) \subseteq ids(makeGame)
  /\ \A q \in Pieces(game) :
       /\ q.color = dealt(q.id).color
       /\ \/ q.type = dealt(q.id).type
          \/ /\ dealt(q.id).type = "pawn"
             /\ q.type \in {"queen", "knight", "bishop", "rook"}
  /\ \A p \in Pieces(game) :
       /\ \A d \in getValidMoves(game, p, FALSE) :
            LET r == moveTo(game, p, d)
            IN  /\ framed(game, p, r)
                /\ \E t \in Pieces(r) :
                     t.id = p.id /\ t.type = p.type /\ t.coord = d
       /\ \A T \in promoteTypes(game, p) :
            LET r == updatePiece(game, [p EXCEPT !.type = T], 1)
            IN  /\ framed(game, p, r)
                /\ ids(r) = ids(game)
                /\ \E t \in Pieces(r) :
                     t.id = p.id /\ t.type = T /\ t.coord = p.coord

\* A piece has been captured and a pawn promoted: the promoted piece has the
\* id and the color of the pawn, and the ids are still distinct.
C22_Witness ==
  /\ Len(game.pieces) < 32
  /\ Cardinality(ids(game)) = Len(game.pieces)
  /\ \E q \in Pieces(game) :
       /\ dealt(q.id).type = "pawn"
       /\ q.type # "pawn"
       /\ q.color = dealt(q.id).color

onBoard(coord) ==
  /\ cx(coord) \in 0..(Size - 1)
  /\ cy(coord) \in 0..(Size - 1)

\* C23. Bounds and friendly squares: every destination getValidMoves
\* returns, with attacksOnly false or true and for every piece of the state
\* (pawns on their last rank and kings that may castle included), is on the
\* 8x8 board and holds no piece of the mover's color; every piece of every
\* reachable state stands on the board.
C23_BoundsAndFriendlySquares ==
  \A p \in Pieces(game) :
    /\ onBoard(p.coord)
    /\ \A attacksOnly \in BOOLEAN :
         \A d \in getValidMoves(game, p, attacksOnly) :
           /\ onBoard(d)
           /\ \A q \in Pieces(game) : q.coord = d => q.color # p.color

\* A pawn stands on its last rank, where the squares before it are off the
\* board, and has no destination.
C23_Witness ==
  \E p \in Pieces(game) :
    /\ p.type = "pawn"
    /\ canPromote(game, p)
    /\ ~onBoard(<<cx(p.coord), cy(p.coord) + getDirection(game, p)>>)
    /\ getValidMoves(game, p, FALSE) = {}

\* A chain of nested activations from f holds at least n activations of
\* getValidMoves among its first fuel ones.
RECURSIVE nests(_, _, _)
nests(f, n, fuel) ==
  LET m == IF f.fn = "getValidMoves" THEN n - 1 ELSE n
  IN  IF fuel = 0 THEN n <= 0
      ELSE IF m <= 0 THEN TRUE
      ELSE \E c \in callsOf(f) : nests(c, m, fuel - 1)

\* A chain of nested activations from f is longer than fuel.
RECURSIVE deeper(_, _)
deeper(f, fuel) ==
  IF fuel = 0 THEN TRUE ELSE \E c \in callsOf(f) : deeper(c, fuel - 1)

\* The calls a client or the validator makes on the state g; canMove calls
\* getValidMoves(game, piece, false) for every piece of the color.
entries(g) ==
  { frame("canMove", g, <<>>, c, FALSE, <<>>) : c \in {"white", "black"} } \cup
  { frame("isInCheck", g, <<>>, c, FALSE, <<>>) : c \in {"white", "black"} } \cup
  { frame("canCastle", g, <<k>>, k.color, FALSE, <<r>>) :
    k \in { q \in Pieces(g) : q.type = "king" },
    r \in { q \in Pieces(g) : q.type = "rook" } }

\* C24. Termination of the check simulation: on every reachable board, an
\* activation of getValidMoves with attacksOnly = true starts no updatePiece,
\* isInCheck or canCastle (and nothing else that calls back); the chain of
\* nested activations under canMove, isInCheck, canCastle and
\* getValidMoves(game, piece, false) is shorter than MaxStack and holds at
\* most two activations of getValidMoves; and the squares simulated for a
\* king or a knight are the ones its result is filtered from.
C24_TerminationOfSimulation ==
  /\ \A p \in Pieces(game) :
       callsOf(frame("getValidMoves", game, <<p>>, p.color, TRUE, <<>>)) = {}
  /\ \A f \in entries(game) :
       /\ ~nests(f, 3, MaxStack)
       /\ ~deeper(f, MaxStack)
  /\ \A p \in { q \in Pieces(game) : q.type \in {"king", "knight"} } :
       getValidMoves(game, p, FALSE) =
         { sq \in candidates(game, p) :
             ~isInCheck(updatePiece(game, [p EXCEPT !.coord = sq], 1), p.color) }

\* A king that may castle: its getValidMoves asks canCastle and simulates the
\* jump, and the chain under it holds two activations of getValidMoves.
C24_Witness ==
  \E k \in Pieces(game) : \E r \in Pieces(game) :
    /\ canCastle(game, k, r)
    /\ nests(frame("getValidMoves", game, <<k>>, k.color, FALSE, <<>>), 2, MaxStack)
    /\ ~nests(frame("getValidMoves", game, <<k>>, k.color, FALSE, <<>>), 3, MaxStack)
    /\ \E sq \in candidates(game, k) : abs(sq[1] - cx(k.coord)) = 2

\* C25. Attacks-only mode: the squares getValidMoves(game, piece, true)
\* returns are exactly the squares of the piece's movement pattern that hold
\* a piece of the other color, whether or not capturing there leaves the
\* mover's king in check: none is empty, none is a pawn's forward step, an
\* en-passant square or a castling jump; and isVulnerable(game, target) is
\* true exactly when a piece of the other color has target's square in its
\* set.
C25_AttacksOnly ==
  /\ \A p \in Pieces(game) :
       /\ getValidMoves(game, p, TRUE) =
            { sq \in candidates(game, p) :
                \E q \in Pieces(game) : q.coord = sq /\ q.color # p.color }
       /\ \A sq \in getValidMoves(game, p, TRUE) :
            /\ getPieceAtPosition(game, sq[1], sq[2]) # <<>>
            /\ p.type = "pawn" => sq[1] # cx(p.coord)
            /\ p.type = "king" => abs(sq[1] - cx(p.coord)) <= 1
  /\ \A t \in Pieces(game) :
       isVulnerable(game, t) <=>
         \E x \in Pieces(game) :
           x.color # t.color /\ t.coord \in getValidMoves(game, x, TRUE)

\* A piece attacks a square it may not capture on, because the capture would
\* leave its own king in check: the square is in its attacks-only set and
\* not among its moves.
C25_Witness ==
  \E p \in Pieces(game) :
    \E sq \in getValidMoves(game, p, TRUE) :
      /\ sq \notin getValidMoves(game, p, FALSE)
      /\ isVulnerable(game, getPieceAtPosition(game, sq[1], sq[2])[1])

\* The directions of a sliding piece.
slideDirections(type) ==
  LET orthogonal == { <<1, 0>>, <<0, 1>>, <<-1, 0>>, <<0, -1>> }
      diagonal == { <<1, 1>>, <<-1, 1>>, <<-1, -1>>, <<1, -1>> }
  IN  IF type = "queen" THEN orthogonal \cup diagonal
      ELSE IF type = "rook" THEN orthogonal
      ELSE IF type = "bishop" THEN diagonal
      ELSE {}

\* The k-th square from p in the direction d.
step(p, d, k) == <<cx(p.coord) + k * d[1], cy(p.coord) + k * d[2]>>

\* The squares of p's ray in the direction d: outward up to the board edge
\* or the first occupied square, that one included when it holds an enemy.
ray(g, p, d) ==
  LET stops(k) == \/ ~onBoard(step(p, d, k))
                  \/ getPieceAtPosition(g, step(p, d, k)[1], step(p, d, k)[2]) # <<>>
      first == CHOOSE k \in 1..Size : stops(k) /\ \A j \in 1..(k - 1) : ~stops(j)
  IN  { step(p, d, k) : k \in 1..(first - 1) } \cup
      { sq \in {step(p, d, first)} :
          onBoard(sq) /\ \E q \in Pieces(g) : q.coord = sq /\ q.color # p.color }

\* Moving p to sq does not leave p's king in check.
safe(g, p, sq) == ~isInCheck(updatePiece(g, [p EXCEPT !.coord = sq], 1), p.color)

\* C26. Sliding pieces: for every queen, rook and bishop of a reachable
\* state and each of its directions, the squares getValidMoves returns on
\* that line are the squares of the ray (outward to the board edge or the
\* first occupied square, which is included iff it holds an enemy piece) that
\* pass the self-check filter, so a dropped square does not end the ray and
\* nothing beyond the first occupied square is returned; with attacksOnly
\* they are the occupied squares of the ray; and nothing off these rays is
\* returned.
C26_SlidingPieces ==
  \A p \in { q \in Pieces(game) : q.type \in {"queen", "rook", "bishop"} } :
    /\ Cardinality(slideDirections(p.type)) = (IF p.type = "queen" THEN 8 ELSE 4)
    /\ candidates(game, p) = UNION { ray(game, p, d) : d \in slideDirections(p.type) }
    /\ \A moves \in {getValidMoves(game, p, FALSE)} :
       \A attacks \in {getValidMoves(game, p, TRUE)} :
         /\ \A d \in slideDirections(p.type) :
              LET line == { step(p, d, k) : k \in 1..Size }
              IN  /\ moves \cap line =
                       { sq \in ray(game, p, d) : safe(game, p, sq) }
                  /\ attacks \cap line =
                       { sq \in ray(game, p, d) :
                           getPieceAtPosition(game, sq[1], sq[2]) # <<>> }
         /\ moves \subseteq
              UNION { ray(game, p, d) : d \in slideDirections(p.type) }

\* On one ray of a sliding piece, a nearer square is dropped by the
\* self-check filter and a farther one is returned.
C26_Witness ==
  \E p \in { q \in Pieces(game) : q.type \in {"queen", "rook", "bishop"} } :
    \E d \in slideDirections(p.type) :
      \E j \in 1..Size : \E k \in (j + 1)..Size :
        /\ step(p, d, j) \in ray(game, p, d)
        /\ step(p, d, k) \in ray(game, p, d)
        /\ ~safe(game, p, step(p, d, j))
        /\ step(p, d, j) \notin getValidMoves(game, p, FALSE)
        /\ step(p, d, k) \in getValidMoves(game, p, FALSE)

\* The destinations of the pawn p by the rules: one rank forward if empty,
\* two if both are empty and it never moved, a forward diagonal if it holds
\* an enemy piece or is an en-passant square.
pawnRule(g, p) ==
  LET ahead == IF p.color = "white" THEN 1 ELSE -1
      px == cx(p.coord)
      py == cy(p.coord)
      empty(sq) == \A q \in Pieces(g) : q.coord # sq
      enemy(sq) == \E q \in Pieces(g) : q.coord = sq /\ q.color # p.color
  IN  { sq \in {<<px, py + ahead>>} : onBoard(sq) /\ empty(sq) } \cup
      { sq \in {<<px, py + 2 * ahead>>} :
          /\ onBoard(sq) /\ empty(sq) /\ empty(<<px, py + ahead>>)
          /\ p.moveCount = 0 } \cup
      { sq \in {<<px - 1, py + ahead>>, <<px + 1, py + ahead>>} :
          /\ onBoard(sq)
          /\ \/ enemy(sq)
             \/ empty(sq) /\ getEnPassantPiece(g, p, sq[1], sq[2]) # <<>> }

\* C27. Pawn moves: for every pawn of a reachable state, the squares whose
\* move is simulated are exactly those of the rules (forward one if empty,
\* forward two if both squares are empty and moveCount is 0, a forward
\* diagonal if it holds an enemy piece or is an en-passant square) and the
\* destinations returned are those of them that pass the self-check filter;
\* a destination on the pawn's file is empty, and a destination on a
\* neighbouring file is occupied by an enemy or an en-passant square.
C27_PawnMoves ==
  \A p \in { q \in Pieces(game) : q.type = "pawn" } :
    /\ candidates(game, p) = pawnRule(game, p)
    /\ getValidMoves(game, p, FALSE) =
         { sq \in pawnRule(game, p) : safe(game, p, sq) }
    /\ \A sq \in getValidMoves(game, p, FALSE) :
         /\ cy(sq) - cy(p.coord) \in
              (IF p.color = "white" THEN {1, 2} ELSE {-1, -2})
         /\ cx(sq) = cx(p.coord) =>
              getPieceAtPosition(game, sq[1], sq[2]) = <<>>
         /\ cx(sq) # cx(p.coord) =>
              /\ abs(cx(sq) - cx(p.coord)) = 1
              /\ abs(cy(sq) - cy(p.coord)) = 1
              /\ \/ \E q \in Pieces(game) : q.coord = sq /\ q.color # p.color
                 \/ getEnPassantPiece(game, p, sq[1], sq[2]) # <<>>

\* A pawn has just moved diagonally onto an empty square, taking en passant,
\* and a pawn that never moved may step one or two squares forward.
C27_Witness ==
  /\ wasEnPassant(game)
  /\ \E p \in { q \in Pieces(game) : q.type = "pawn" } :
       /\ p.moveCount = 0
       /\ Cardinality({ sq \in getValidMoves(game, p, FALSE) :
                          cx(sq) = cx(p.coord) }) = 2

\* What a call of isInCheck gives its caller.
isInCheckOutcome(g, color) ==
  IF isInCheckThrows(g, color) THEN "throws"
  ELSE IF isInCheck(g, color) THEN "true" ELSE "false"

\* States with pieces and no king of the color: updatePiece, which asks for
\* no legality, has put a queen or a knight of either color on the king's
\* square, or only one piece that is no king is left.
kingless(g, color) ==
  { updatePiece(g, [p EXCEPT !.coord = k.coord], 1) :
      p \in { q \in Pieces(g) :
                /\ q.type \in {"queen", "knight"}
                /\ ~updatePieceThrows(g, [q EXCEPT !.coord = kingOf(g, color)[1].coord]) },
      k \in { q \in Pieces(g) : q.type = "king" /\ q.color = color } } \cup
  { [g EXCEPT !.pieces = <<p>>] :
      p \in { q \in Pieces(g) : q.type # "king" } }

\* C28. Missing king is an error: on a state that holds pieces and no king
\* of the color, isInCheck raises and returns neither true nor false, and so
\* does getValidMoves for a piece of that color with a square to try (a
\* knight on a full board, any piece standing alone);
\* on the states of play, where both kings stand, it raises nothing.
C28_MissingKing ==
  \A color \in {"white", "black"} :
    /\ kingOf(game, color) # <<>>
    /\ isInCheckOutcome(game, color) \in {"true", "false"}
    /\ \A s \in kingless(game, color) :
         /\ s.pieces # <<>>
         /\ kingOf(s, color) = <<>>
         /\ isInCheckOutcome(s, color) = "throws"
         /\ \A p \in { q \in Pieces(s) :
                         Len(s.pieces) = 1 \/ q.type = "knight" } :
              (p.color = color /\ candidates(s, p) # {}) =>
                getValidMovesThrows(s, p)

\* The white king is in check in play, and on the state where the checking
\* piece has been put on the king's square isInCheck raises for white.
C28_Witness ==
  \E color \in {"white", "black"} :
    /\ isInCheckOutcome(game, color) = "true"
    /\ \E x \in Pieces(game) :
         /\ x.color # color
         /\ kingOf(game, color)[1].coord \in getValidMoves(game, x, TRUE)
         /\ isInCheckOutcome(
              updatePiece(game, [x EXCEPT !.coord = kingOf(game, color)[1].coord], 1),
              color) = "throws"

\* C29. Client polling never goes backwards: whatever the order in which the
\* answers to the tab's polls and to its own submission arrive, the
\* moveCount of the game the hook holds never decreases (and a loaded game
\* stays loaded).
C29_NeverBackwards ==
  [][ ui.game # <<>> =>
        /\ ui'.game # <<>>
        /\ ui'.game[1].moveCount >= ui.game[1].moveCount ]_vars

\* C30. Client turn gating: every updatePiece call issued through the UI
\* moves a piece of the viewer's color, on a game whose turn (by the parity
\* of moveCount) is that color.
C30_TurnGating ==
  ui.issued # <<>> =>
    /\ ui.issued[1].piece.color = Viewer
    /\ turn(ui.issued[1].game) = ui.issued[1].piece.color

====
